---- MODULE Spec2Model ----
(***************************************************************************)
(* State-machine model of the incremental rule collector                   *)
(* (src/core/collector.py and the modules it drives).                      *)
(*                                                                         *)
(* Paths are sequences of tokens: "/" is the separator, every other token  *)
(* is an atomic piece of a file name ("a", ".", "rules").  String          *)
(* operations of the code (endswith, find, slicing, join, relpath) are     *)
(* computed on these sequences.  A path component is made of one or more    *)
(* tokens ("security-", "policy").  The characters "policy" occur only as  *)
(* a whole token and are always followed by a one-character token, so the  *)
(* character arithmetic of the anchor computation is exact on tokens.      *)
(***************************************************************************)
EXTENDS Integers, Sequences, FiniteSets, TLC

(***************************************************************************)
(* Bounds of the model.                                                    *)
(***************************************************************************)
MaxRuns == 3        \* collection runs per behaviour
MaxEdits == 1       \* changes of the environment per behaviour
MaxContent == 2     \* distinct contents a file can have

(***************************************************************************)
(* Sequence helpers.                                                       *)
(***************************************************************************)
IsPrefixOf(s, t) == Len(s) <= Len(t) /\ SubSeq(t, 1, Len(s)) = s

EndsWith(t, s) == Len(s) <= Len(t) /\ SubSeq(t, Len(t) - Len(s) + 1, Len(t)) = s

Drop(t, n) == SubSeq(t, n + 1, Len(t))

InSeq(x, s) == \E i \in 1..Len(s) : s[i] = x

RECURSIVE Flatten(_)
Flatten(ss) == IF ss = <<>> THEN <<>> ELSE Head(ss) \o Flatten(Tail(ss))

\* list.append guarded by "not in": keeps the first occurrence of every element
RECURSIVE Unique(_, _)
Unique(s, acc) ==
    IF s = <<>> THEN acc
    ELSE Unique(Tail(s), IF InSeq(Head(s), acc) THEN acc ELSE Append(acc, Head(s)))

(***************************************************************************)
(* config/settings.py                                                      *)
(***************************************************************************)
OUTPUT_DIR == <<"collected_rules">>

DOCKER_TEMP_DIR == OUTPUT_DIR \o <<"/", "docker_temp">>

COMMON_PATHS ==
    << <<"/", "etc">>, <<"/", "opt">>, <<"/", "usr", "/", "local">>,
       <<"/", "usr", "/", "share">>, <<"/", "var", "/", "lib">>, <<"/", "var">> >>

PROGRAM_PATHS ==
    << <<"/", "usr", "/", "share">>, <<"/", "usr", "/", "local", "/", "share">>,
       <<"/", "var", "/", "lib">>, <<"/", "opt">> >>

\* os.path.expanduser("~") of the account that runs the collector
HOME_DIR == <<"/", "root">>

SCAN_ORDER_PRIORITY ==
    << [description |-> "common", search_paths |-> COMMON_PATHS],
       [description |-> "home", search_paths |-> << HOME_DIR >>],
       [description |-> "program", search_paths |-> PROGRAM_PATHS] >>

ROOT_PATHS == << <<"/">> >>

(***************************************************************************)
(* config/device_config.py: the registry, in insertion order.  One         *)
(* appliance of every shape of the default table: two directory-pattern    *)
(* appliances, the exact-file appliance and a container appliance.         *)
(***************************************************************************)
DeviceOrder == <<"suricata", "snort", "zeek", "btwaf">>

DeviceNames == {DeviceOrder[i] : i \in 1..Len(DeviceOrder)}

Devices ==
    [d \in DeviceNames |->
        CASE d = "suricata" ->
               [name |-> d, type |-> "local",
                relative_path |-> << <<"**", "/", "suricata", "/", "rules", "/">> >>,
                file_type |-> "rules", container |-> "", path |-> <<>>]
          [] d = "snort" ->
               [name |-> d, type |-> "local",
                relative_path |-> << <<"**", "/", "snort", "/", "rules", "/">>,
                                     <<"**", "/", "scripts", "/", "policy">>,
                                     <<"**", "/", "scripts", "/", "site">> >>,
                file_type |-> "rules", container |-> "", path |-> <<>>]
          [] d = "zeek" ->
               [name |-> d, type |-> "local",
                relative_path |->
                    << <<"**", "/", "zeek", "/", "share", "/", "zeek", "/", "policy", "/",
                         "protocols", "/", "ssh", "/", "detect-bruteforcing", ".", "zeek">> >>,
                file_type |-> "zeek", container |-> "", path |-> <<>>]
          [] OTHER ->
               [name |-> d, type |-> "docker", relative_path |-> <<>>,
                file_type |-> "json", container |-> "86e4e41a871c",
                path |-> <<"/", "etc", "/", "nginx", "/", "waf", "/", "rule">>]]

get_all_devices == Devices

(***************************************************************************)
(* The host filesystem: the files that can exist, in the order directory   *)
(* traversal (glob, os.walk) reports them.  A directory exists while a     *)
(* file below it does.  The output tree and the working directory lie      *)
(* outside every probed tree.                                              *)
(***************************************************************************)
HostFiles ==
    << <<"/", "etc", "/", "suricata", "/", "rules", "/", "a", ".", "rules">>,
       <<"/", "etc", "/", "suricata", "/", "rules", "/", "b", ".", "rules">>,
       <<"/", "etc", "/", "snort", "/", "rules", "/", "suricata", "/", "rules", "/", "a", ".", "rules">>,
       <<"/", "root", "/", "suricata", "/", "rules", "/", "c", ".", "rules">>,
       <<"/", "srv", "/", "snort", "/", "rules", "/", "d", ".", "RULES">>,
       <<"/", "opt", "/", "zeek", "/", "share", "/", "zeek", "/", "policy", "/",
         "protocols", "/", "ssh", "/", "detect-bruteforcing", ".", "zeek">>,
       <<"/", "opt", "/", "security-", "policy", "/", "zeek", "/", "share", "/", "zeek", "/",
         "policy", "/", "protocols", "/", "ssh", "/", "detect-bruteforcing", ".", "zeek">> >>

FileIds == 1..Len(HostFiles)

\* the file of the exact-file appliance, installed with the package
ZeekFile == 6

\* the same file of a second installation, below a directory whose name ends
\* in the characters of the anchor; it is only ever added after the first
PrefixedZeekFile == 7

\* a rule file that is only ever added after the installation
LaterFile == CHOOSE i \in FileIds : HostFiles[i][Len(HostFiles[i]) - 2] = "b"

HostFileSet == {HostFiles[i] : i \in FileIds}

\* the directories above p, nearest the root first
DirsAbove(p) == SelectSeq([k \in 1..Len(p) |-> SubSeq(p, 1, k - 1)],
                          LAMBDA d : d # <<>> /\ p[Len(d) + 1] = "/")

\* every path of the universe, parents before children, in traversal order
AllPaths == Unique(Flatten([i \in FileIds |-> Append(DirsAbove(HostFiles[i]), HostFiles[i])]), <<>>)

\* str.lower() on one token
Lower(t) == CASE t = "RULES" -> "rules" [] t = "Policy" -> "policy" [] OTHER -> t

LowerPath(p) == [k \in 1..Len(p) |-> Lower(p[k])]


(***************************************************************************)
(* State.                                                                  *)
(***************************************************************************)
VARIABLES
    fs,                 \* host files: file id -> content, 0 when the file does not exist
    unreadable,         \* ids of the host files that cannot be opened for reading
    container,          \* the container runtime as the docker commands see it
    hash_file,          \* HASH_RECORD_FILE
    path_cache_file,    \* PATH_CACHE_FILE
    out_tree,           \* the output tree: destination path -> content
    temp_tree,          \* DOCKER_TEMP_DIR: extracted path -> content
    pc,                 \* position of the run in collect_rules / main
    force_rescan,       \* argument of collect_rules
    old_hash_record,    \* collect_rules: loaded hash record
    path_cache,         \* collect_rules: loaded path cache
    use_cache,          \* result of _decide_scan_strategy
    verified_cache,     \* result of _decide_scan_strategy
    verify_out,         \* what verify_cached_paths returned in this run, if called
    dev_idx,            \* _scan_rule_files: index of the next appliance
    scan_targets,       \* _scan_rule_files: all_targets before de-duplication
    device_out,         \* per appliance: how it was processed in this run
    new_path_cache,     \* _scan_rule_files: the cache being rebuilt
    all_targets,        \* collect_rules: de-duplicated targets
    new_hash_record,    \* collect_rules: result of calculate_file_hashes
    changed_files,      \* collect_rules: result of calculate_file_hashes
    unchanged_count,    \* collect_rules: result of calculate_file_hashes
    copied_files,       \* collect_rules: result of copy_changed_files
    copy_pos,           \* copy_changed_files: the target being copied and the step of safe_copy
    result,             \* the CollectionResult of the run
    runs,               \* runs started so far
    edits,              \* environment changes so far
    prev,               \* what the previous run left behind
    dirty,              \* the environment changed since the previous run ended
    fault               \* the environment: the fault of the output tree, if any

vars == <<fs, unreadable, container, hash_file, path_cache_file, out_tree, temp_tree,
          pc, force_rescan, old_hash_record, path_cache, use_cache, verified_cache,
          verify_out, dev_idx, scan_targets, device_out, new_path_cache, all_targets,
          new_hash_record, changed_files, unchanged_count, copied_files, result,
          runs, edits, prev, dirty, fault, copy_pos>>

\* a dict with no key
EmptyMap == [x \in {} |-> <<>>]

\* dict assignment d[k] = v
Put(d, k, v) == (k :> v) @@ d

(***************************************************************************)
(* The filesystem as os.path sees it.                                      *)
(***************************************************************************)
FileId(p) == CHOOSE i \in FileIds : HostFiles[i] = p

IsHostFile(p) == p \in HostFileSet /\ fs[FileId(p)] # 0

IsProperDir(d, f) == Len(d) < Len(f) /\ IsPrefixOf(d, f) /\ f[Len(d) + 1] = "/"

\* per path of the universe, the host files below it
FilesBelow ==
    [p \in {AllPaths[k] : k \in 1..Len(AllPaths)} |->
        {i \in FileIds : IsProperDir(p, HostFiles[i])}]

IsHostDir(p) == p \in DOMAIN FilesBelow /\ \E i \in FilesBelow[p] : fs[i] # 0

isfile(p) == IsHostFile(p) \/ p \in DOMAIN temp_tree \/ p \in DOMAIN out_tree

isdir(p) ==
    \/ IsHostDir(p)
    \/ \E f \in DOMAIN temp_tree : IsProperDir(p, f)
    \/ \E f \in DOMAIN out_tree : IsProperDir(p, f)

exists(p) == isfile(p) \/ isdir(p)

\* os.path.join(a, b) for a relative b
join(a, b) == IF a # <<>> /\ a[Len(a)] = "/" THEN a \o b ELSE a \o <<"/">> \o b

\* os.path.relpath(p, start) for p below start
relpath(p, start) == Drop(p, Len(start) + 1)

\* os.path.basename
RECURSIVE basename(_)
basename(p) == IF p = <<>> \/ p[Len(p)] = "/" THEN <<>>
               ELSE Append(basename(SubSeq(p, 1, Len(p) - 1)), p[Len(p)])

\* str.lstrip("/")
RECURSIVE lstrip_sep(_)
lstrip_sep(p) == IF p # <<>> /\ Head(p) = "/" THEN lstrip_sep(Tail(p)) ELSE p

\* name.lower().endswith("." + file_extension.lower())
HasExtension(p, file_extension) ==
    EndsWith(LowerPath(p), IF file_extension = "" THEN <<".">>
                           ELSE <<".", Lower(file_extension)>>)

(***************************************************************************)
(* glob.glob(full_pattern, recursive=True) for the patterns of the         *)
(* registry: a literal prefix, "**" for zero or more directories, then a   *)
(* literal tail; a trailing separator matches directories only.            *)
(***************************************************************************)
StarAt(pat) == CHOOSE k \in 1..Len(pat) : pat[k] = "**"

IsDirPattern(full_pattern) == full_pattern[Len(full_pattern)] = "/"

\* whether the name p has the shape of the pattern
NameMatches(p, full_pattern) ==
    LET pat == IF IsDirPattern(full_pattern)
               THEN SubSeq(full_pattern, 1, Len(full_pattern) - 1)
               ELSE full_pattern
    IN  IF InSeq("**", pat)
        THEN LET k == StarAt(pat)
                 pre == SubSeq(pat, 1, k - 1)
                 lit == Drop(pat, k + 1)
                 rest == Drop(p, Len(pre))
             IN  /\ IsPrefixOf(pre, p)
                 /\ EndsWith(rest, lit)
                 /\ \/ Len(rest) = Len(lit)
                    \/ rest[Len(rest) - Len(lit)] = "/"
        ELSE p = pat

SeqRange(s) == {s[k] : k \in 1..Len(s)}

AllBasePaths == SeqRange(COMMON_PATHS) \cup SeqRange(PROGRAM_PATHS) \cup {HOME_DIR} \cup SeqRange(ROOT_PATHS)

AllPatterns == UNION {SeqRange(Devices[d].relative_path) : d \in DeviceNames}

\* per joined pattern, the names of the universe with its shape, in traversal order
NameTable ==
    [fp \in {join(b, lstrip_sep(q)) : b \in AllBasePaths, q \in AllPatterns} |->
        SelectSeq(AllPaths, LAMBDA p : NameMatches(p, fp))]

glob(full_pattern) ==
    SelectSeq(NameTable[full_pattern],
              LAMBDA p : IF IsDirPattern(full_pattern) THEN IsHostDir(p)
                         ELSE IsHostFile(p) \/ IsHostDir(p))

(***************************************************************************)
(* utils/file_utils.py                                                     *)
(***************************************************************************)
\* FileUtils.search_files: bases outermost, patterns inside, first occurrence kept
search_files(patterns, base_paths) ==
    Unique(Flatten([b \in 1..Len(base_paths) |->
              Flatten([q \in 1..Len(patterns) |->
                  SelectSeq(glob(join(base_paths[b], lstrip_sep(patterns[q]))), exists)])]),
           <<>>)

\* the files os.walk(directory) reports, in walk order
WalkHost(directory) == SelectSeq(HostFiles, LAMBDA f : IsHostFile(f) /\ IsProperDir(directory, f))

\* FileUtils.enumerate_directory_files, directory branch
enumerate_directory_files(directory_path, file_extension) ==
    LET kept == SelectSeq(WalkHost(directory_path),
                          LAMBDA f : file_extension = "" \/ HasExtension(basename(f), file_extension))
    IN  [k \in 1..Len(kept) |-> <<kept[k], relpath(kept[k], directory_path)>>]

\* FileUtils.calculate_file_hash: the MD5 of the content, None (0) when reading fails
Md5(content) == 100 + content

ReadContent(p) ==
    IF p \in HostFileSet
    THEN IF FileId(p) \in unreadable THEN 0 ELSE fs[FileId(p)]
    ELSE IF p \in DOMAIN temp_tree THEN temp_tree[p]
    ELSE IF p \in DOMAIN out_tree THEN out_tree[p]
    ELSE 0

calculate_file_hash(file_path) ==
    IF ReadContent(file_path) = 0 THEN 0 ELSE Md5(ReadContent(file_path))


(***************************************************************************)
(* models/data_models.py                                                   *)
(***************************************************************************)
FileTarget(src, device, dest_rel, cached, from_docker) ==
    [src |-> src, device |-> device, dest_rel |-> dest_rel,
     cached |-> cached, from_docker |-> from_docker]

CollectionResult(total, copied, unchanged, changed, local_files, docker_files, cached_paths_used, new_paths_found) ==
    [total |-> total, copied |-> copied, unchanged |-> unchanged, changed |-> changed,
     local_files |-> local_files, docker_files |-> docker_files,
     cached_paths_used |-> cached_paths_used, new_paths_found |-> new_paths_found]

\* CollectionResult() with every field at its default
EmptyResult == CollectionResult(0, <<>>, 0, 0, 0, 0, 0, 0)

PathCacheEntry(path, dest_rel) == [path |-> path, dest_rel |-> dest_rel]

(***************************************************************************)
(* core/file_operations.py                                                 *)
(***************************************************************************)
search_rule_files(patterns, base_paths) == search_files(patterns, base_paths)

ANCHOR_PATTERN == "policy"

\* str.find on tokens: the position of the first occurrence, 0 when there is none
Find(p, tok) ==
    IF InSeq(tok, p) THEN CHOOSE k \in 1..Len(p) : p[k] = tok /\ \A j \in 1..(k - 1) : p[j] # tok
    ELSE 0

\* process_found_items, exact-file branch: the (source, destination_relative) pairs
ExactFileEntry(item) ==
    LET anchor_index == Find(LowerPath(item), Lower(ANCHOR_PATTERN))
        \* item[anchor_index + len(ANCHOR_PATTERN) + 1:]
        destination_relative == Drop(item, anchor_index + 1)
    IN  IF anchor_index # 0
        THEN IF destination_relative # <<>> THEN << <<item, destination_relative>> >> ELSE <<>>
        ELSE << <<item, basename(item)>> >>

\* process_found_items: the files one found item contributes
ItemFiles(item, file_extension) ==
    IF IsHostFile(item) /\ HasExtension(item, file_extension) THEN ExactFileEntry(item)
    ELSE IF isdir(item) THEN enumerate_directory_files(item, file_extension)
    ELSE <<>>

\* faulty variant of the inner loop: every file is appended, present or not
AppendEvery(files, device_name, targets) ==
    targets \o [k \in 1..Len(files) |->
                   FileTarget(files[k][1], device_name, files[k][2], FALSE, FALSE)]

\* process_found_items: the inner loop, which skips a source already among the targets
RECURSIVE AppendTargets(_, _, _)
AppendTargets(files, device_name, targets) ==
    IF files = <<>> THEN targets
    ELSE LET source_path == Head(files)[1]
             destination_relative == Head(files)[2]
         IN  AppendTargets(Tail(files), device_name,
                 IF \E k \in 1..Len(targets) : targets[k].src = source_path
                 THEN targets
                 ELSE Append(targets, FileTarget(source_path, device_name,
                                                 destination_relative, FALSE, FALSE)))

RECURSIVE ProcessItems(_, _, _, _)
ProcessItems(found_items, device_name, file_extension, targets) ==
    IF found_items = <<>> THEN targets
    ELSE ProcessItems(Tail(found_items), device_name, file_extension,
                      AppendTargets(ItemFiles(Head(found_items), file_extension),
                                    device_name, targets))

process_found_items(found_items, device_name, file_extension) ==
    ProcessItems(found_items, device_name, file_extension, <<>>)

\* faulty variant of the loop body: a target that cannot be hashed is reported
\* as changed
HashStepKeepingFailures(acc, target, old_hash_record_) ==
    LET file_hash == calculate_file_hash(target.src)
    IN  IF file_hash # 0 /\ target.src \in DOMAIN old_hash_record_
                         /\ old_hash_record_[target.src] = file_hash
        THEN [acc EXCEPT !.new_hash_record = Put(@, target.src, file_hash),
                         !.unchanged_count = @ + 1]
        ELSE [acc EXCEPT !.new_hash_record = Put(@, target.src, file_hash),
                         !.changed_files = Append(@, target)]

\* faulty variant of the loop body: a target is changed only when its path is new
HashStepIgnoringDigest(acc, target, old_hash_record_) ==
    LET file_hash == calculate_file_hash(target.src)
    IN  IF file_hash # 0
        THEN IF target.src \in DOMAIN old_hash_record_
             THEN [acc EXCEPT !.new_hash_record = Put(@, target.src, file_hash),
                              !.unchanged_count = @ + 1]
             ELSE [acc EXCEPT !.new_hash_record = Put(@, target.src, file_hash),
                              !.changed_files = Append(@, target)]
        ELSE acc

\* calculate_file_hashes: one iteration of the loop over the targets
HashStep(acc, target, old_hash_record_) ==
    LET file_hash == calculate_file_hash(target.src)
    IN  IF file_hash # 0
        THEN IF target.src \in DOMAIN old_hash_record_ /\ old_hash_record_[target.src] = file_hash
             THEN [acc EXCEPT !.new_hash_record = Put(@, target.src, file_hash),
                              !.unchanged_count = @ + 1]
             ELSE [acc EXCEPT !.new_hash_record = Put(@, target.src, file_hash),
                              !.changed_files = Append(@, target)]
        ELSE acc

\* what json.load returns for a "scalar" file: a value that is no dict, here a
\* map whose only key is one no path can be
ScalarRecord == [p \in {<<>>} |-> 0]

\* calculate_file_hashes, line 122: `source_path in old_hash_record` raises
\* TypeError on a value that is no container, for the first target with a digest
hash_lookup_raises(targets, old_hash_record_) ==
    /\ old_hash_record_ = ScalarRecord
    /\ \E k \in 1..Len(targets) : calculate_file_hash(targets[k].src) # 0

RECURSIVE HashLoop(_, _, _)
HashLoop(targets, old_hash_record_, acc) ==
    IF targets = <<>> THEN acc
    ELSE HashLoop(Tail(targets), old_hash_record_, HashStep(acc, Head(targets), old_hash_record_))

calculate_file_hashes(targets, old_hash_record_) ==
    HashLoop(targets, old_hash_record_,
             [new_hash_record |-> EmptyMap, changed_files |-> <<>>, unchanged_count |-> 0])

\* copy_changed_files, lines 162-163
DestinationPath(target) == join(join(OUTPUT_DIR, <<target.device>>), target.dest_rel)

\* the content of a file that was written only in part
Partial == -1

\* the part of the output tree an environment fault bears on
FAULT_DIR == join(OUTPUT_DIR, <<"suricata">>)

\* "mkdir": os.makedirs raises below FAULT_DIR; "write": a write below FAULT_DIR
\* stops half-way; "replace": os.replace fails below FAULT_DIR; "temp": the
\* temporary directory of a container appliance cannot be created
FaultKinds == {"none", "mkdir", "write", "replace", "temp"}

FaultyDestination(destination_path) == IsPrefixOf(FAULT_DIR, destination_path)

\* FileUtils.ensure_directory_exists(os.path.dirname(destination_path)) raises
makedirs_raises(destination_path) == fault = "mkdir" /\ FaultyDestination(destination_path)

\* faulty variant of safe_copy's temp_path: the copy writes the destination itself
InPlacePath(destination) == destination

\* FileUtils.safe_copy, line 89: destination + ".tmp"
TempPath(destination) == destination \o <<".tmp">>

\* os.remove(path)
remove(tree, path) == [f \in DOMAIN tree \ {path} |-> tree[f]]

\* shutil.copy2(source, temp_path): [ok, tree]; a source that cannot be opened
\* leaves nothing behind, a write that fails leaves a partial file
copy2(tree, source, temp_path) ==
    IF ReadContent(source) = 0 THEN [ok |-> FALSE, tree |-> tree]
    ELSE IF fault = "write" /\ FaultyDestination(temp_path)
    THEN [ok |-> FALSE, tree |-> Put(tree, temp_path, Partial)]
    ELSE [ok |-> TRUE, tree |-> Put(tree, temp_path, ReadContent(source))]

\* os.replace(temp_path, destination): [ok, tree]
replace(tree, temp_path, destination) ==
    IF fault = "replace" /\ FaultyDestination(destination)
    THEN [ok |-> FALSE, tree |-> tree]
    ELSE [ok |-> TRUE, tree |-> Put(remove(tree, temp_path), destination, tree[temp_path])]

\* FileUtils.safe_copy, lines 98-100: the temp file is removed if it exists
remove_temp(tree, temp_path) == IF temp_path \in DOMAIN tree THEN remove(tree, temp_path) ELSE tree

(***************************************************************************)
(* core/cache_manager.py                                                   *)
(***************************************************************************)
\* A cache file: absent, or present with a content of one of three kinds:
\* "object" (a JSON object, as json.dump writes it), "garbled" (not JSON) or
\* "scalar" (JSON, but a number instead of an object)
AbsentFile == [present |-> FALSE, kind |-> "none", data |-> EmptyMap]

StoredFile(data) == [present |-> TRUE, kind |-> "object", data |-> data]

DamagedFile(kind) == [present |-> TRUE, kind |-> kind, data |-> EmptyMap]

DamageKinds == {"missing", "garbled", "scalar"}

\* faulty variant of load_hash_record: the stored record is not read
load_no_record == EmptyMap

\* load_hash_record: json.load's value, whatever it is; {} when the file is
\* missing or json.load raises
load_hash_record ==
    IF hash_file.present /\ hash_file.kind = "object" THEN hash_file.data
    ELSE IF hash_file.present /\ hash_file.kind = "scalar" THEN ScalarRecord
    ELSE EmptyMap

\* load_path_cache: len() and items() of lines 49-52 raise on a value that is
\* no dict, inside the try, so that {} is returned for it as well
load_path_cache ==
    IF path_cache_file.present /\ path_cache_file.kind = "object" THEN path_cache_file.data
    ELSE EmptyMap

save_hash_record(hash_record) == StoredFile(hash_record)

\* faulty variant of save_path_cache: the file is left as it is
save_path_cache_skipped(cache) == path_cache_file

save_path_cache(cache) == StoredFile(cache)

\* verify_cached_paths: the inner loop over one appliance's entries
RECURSIVE VerifyPaths(_, _)
VerifyPaths(paths, valid) ==
    IF paths = <<>> THEN valid
    ELSE VerifyPaths(Tail(paths),
                     IF exists(Head(paths).path) THEN Append(valid, Head(paths)) ELSE valid)

\* faulty variant of verify_cached_paths: no entry is filtered out
verify_without_filter(cache) == cache

verify_cached_paths(cache) == [device \in DOMAIN cache |-> VerifyPaths(cache[device], <<>>)]


(***************************************************************************)
(* core/docker_operations.py.  The runtime is the record `container`:      *)
(*   state       "absent", "exited" or "running"                           *)
(*   path_exists whether `test -e` finds the configured path               *)
(*   cp          what `docker cp` does: "ok", "fail" (nothing written) or  *)
(*               "partial" (some files written, then a non-zero exit)      *)
(*   tar         what the tar stream does: "ok", "fail", or "hang" (the    *)
(*               process neither closes its output nor exits)              *)
(*   content     the content of the rule file inside the container         *)
(***************************************************************************)
\* the files below the configured directory of the container, in walk order
ContainerFiles == << <<"x", ".", "json">>, <<"readme", ".", "txt">> >>

ContainerContent(f) == IF f = ContainerFiles[1] THEN container.content ELSE 1

\* resolve_container_id: the resolved id, "" for None
resolve_container_id(container_identifier) ==
    IF container.state = "absent" THEN "" ELSE container_identifier

\* get_container_info: found = FALSE for None
get_container_info(container_identifier) ==
    LET resolved_id == resolve_container_id(container_identifier)
    IN  [found |-> resolved_id # "", container_id |-> container_identifier,
         is_running |-> resolved_id # "" /\ container.state = "running",
         resolved_id |-> resolved_id]

\* faulty variant of path_exists_in_container: the path is taken to exist
path_taken_to_exist(resolved_id, path) == TRUE

path_exists_in_container(resolved_id, path) == container.state = "running" /\ container.path_exists

\* shutil.rmtree(directory)
rmtree(tree, directory) ==
    [f \in {g \in DOMAIN tree : ~IsProperDir(directory, g)} |-> tree[f]]

\* any(Path(directory).iterdir())
HasEntries(tree, directory) == \E f \in DOMAIN tree : IsProperDir(directory, f)

RECURSIVE WriteFiles(_, _, _)
WriteFiles(tree, directory, names) ==
    IF names = <<>> THEN tree
    ELSE WriteFiles(Put(tree, join(directory, Head(names)), ContainerContent(Head(names))),
                    directory, Tail(names))

\* `docker cp <container>:<source_path>/. <destination_path>` with the given outcome:
\* the content of the directory lands directly in destination_path
docker_cp(tree, destination_path, outcome) ==
    CASE outcome = "ok" -> WriteFiles(tree, destination_path, ContainerFiles)
      [] outcome = "partial" -> WriteFiles(tree, destination_path, SubSeq(ContainerFiles, 1, 1))
      [] OTHER -> tree

\* copy_directory_from_container: [ok, tree]
copy_directory_from_container(tree, source_path, destination_path) ==
    LET after == docker_cp(tree, destination_path, container.cp)
    IN  IF container.cp # "ok" THEN [ok |-> FALSE, tree |-> after]
        ELSE [ok |-> HasEntries(after, destination_path), tree |-> after]

\* `tar czf - -C dirname(source_path) basename(source_path)` unpacked by
\* tar.extractall(path=destination_path): the members are basename(source_path)/...
tar_extractall(tree, source_path, destination_path) ==
    WriteFiles(tree, join(destination_path, basename(source_path)), ContainerFiles)

\* extract_directory_using_tar: [ok, tree, blocked]; blocked: the read of the
\* process's output (line 133) never returns
extract_directory_using_tar(tree, source_path, destination_path) ==
    IF container.tar = "ok"
    THEN [ok |-> TRUE, tree |-> tar_extractall(tree, source_path, destination_path),
          blocked |-> FALSE]
    ELSE [ok |-> FALSE, tree |-> tree, blocked |-> container.tar = "hang"]

\* faulty variant of the loop over the methods: the tar stream is used even
\* after a successful docker cp
extract_with_both_methods(tree, source_path, destination_path) ==
    LET m1 == copy_directory_from_container(tree, source_path, destination_path)
        m2 == extract_directory_using_tar(m1.tree, source_path, destination_path)
    IN  [success |-> m1.ok \/ m2.ok, tree |-> m2.tree, steps |-> <<"cp", "tar">>,
         blocked |-> m2.blocked]

\* collect_from_docker_container, lines 190-212: the methods in order, stopping
\* at the first that reports success: [success, tree, steps, blocked]
extract_with_fallback(tree, source_path, destination_path) ==
    LET m1 == copy_directory_from_container(tree, source_path, destination_path)
        m2 == extract_directory_using_tar(m1.tree, source_path, destination_path)
    IN  IF m1.ok
        THEN [success |-> TRUE, tree |-> m1.tree, steps |-> <<"cp">>, blocked |-> FALSE]
        ELSE [success |-> m2.ok, tree |-> m2.tree, steps |-> <<"cp", "tar">>,
              blocked |-> m2.blocked]

\* os.walk(temp_destination): the files of the directory first, then those one level down
WalkTemp(tree, temp_destination, source_path) ==
    SelectSeq([k \in 1..Len(ContainerFiles) |-> join(temp_destination, ContainerFiles[k])]
              \o [k \in 1..Len(ContainerFiles) |->
                    join(join(temp_destination, basename(source_path)), ContainerFiles[k])],
              LAMBDA f : f \in DOMAIN tree)

\* collect_from_docker_container, lines 221-240: the enumeration of the collected files
CollectedFiles(tree, temp_destination, source_path, device_name, file_extension) ==
    LET kept == SelectSeq(WalkTemp(tree, temp_destination, source_path),
                    LAMBDA f : file_extension = "" \/ HasExtension(basename(f), file_extension))
    IN  [k \in 1..Len(kept) |->
            FileTarget(kept[k], device_name, relpath(kept[k], temp_destination), FALSE, TRUE)]

\* the temporary destination of lines 182-183
TempDestination(device_name, resolved_id) ==
    join(join(DOCKER_TEMP_DIR, <<device_name>>), <<resolved_id>>)

\* collect_from_docker_container: [targets, tree, steps, raised, blocked]; steps
\* lists what was attempted; raised: an exception left the function (lines
\* 186-188 are outside any try); blocked: the function never returns
collect_from_docker_container(tree, container_identifier, source_path, device_name, file_extension) ==
    LET container_info == get_container_info(container_identifier)
        temp_destination == TempDestination(device_name, container_info.resolved_id)
        clean == rmtree(tree, temp_destination)
        m == extract_with_fallback(clean, source_path, temp_destination)
        none == [targets |-> <<>>, tree |-> tree, steps |-> <<>>, raised |-> FALSE,
                 blocked |-> FALSE]
    IN  IF ~container_info.found
        THEN [none EXCEPT !.steps = <<"resolve">>]
        ELSE IF ~container_info.is_running
        THEN [none EXCEPT !.steps = <<"resolve", "running">>]
        ELSE IF ~path_exists_in_container(container_info.resolved_id, source_path)
        THEN [none EXCEPT !.steps = <<"resolve", "running", "path">>]
        ELSE IF fault = "temp"
        THEN [none EXCEPT !.steps = <<"resolve", "running", "path">>, !.raised = TRUE]
        ELSE [targets |-> IF m.success /\ HasEntries(m.tree, temp_destination)
                          THEN CollectedFiles(m.tree, temp_destination, source_path,
                                              device_name, file_extension)
                          ELSE <<>>,
              tree |-> m.tree,
              steps |-> <<"resolve", "running", "path">> \o m.steps,
              raised |-> FALSE,
              blocked |-> m.blocked]

(***************************************************************************)
(* core/collector.py                                                       *)
(***************************************************************************)
\* faulty variant of _decide_scan_strategy: the forced-rescan flag is ignored
decide_ignoring_force(force_rescan_, path_cache_) ==
    LET attempt == path_cache_ # EmptyMap
        verified == verify_cached_paths(path_cache_)
        has_valid_cache == \E device \in DOMAIN verified : Len(verified[device]) > 0
    IN  IF attempt /\ has_valid_cache
        THEN [use_cache |-> TRUE, verified_cache |-> verified,
              verify_out |-> [called |-> TRUE, value |-> verified]]
        ELSE [use_cache |-> FALSE, verified_cache |-> EmptyMap,
              verify_out |-> [called |-> attempt,
                              value |-> IF attempt THEN verified ELSE EmptyMap]]

\* _decide_scan_strategy: [use_cache, verified_cache, verify_out]
decide_scan_strategy(force_rescan_, path_cache_) ==
    LET attempt == ~force_rescan_ /\ path_cache_ # EmptyMap
        verified == verify_cached_paths(path_cache_)
        has_valid_cache == \E device \in DOMAIN verified : Len(verified[device]) > 0
    IN  IF attempt /\ has_valid_cache
        THEN [use_cache |-> TRUE, verified_cache |-> verified,
              verify_out |-> [called |-> TRUE, value |-> verified]]
        ELSE [use_cache |-> FALSE, verified_cache |-> EmptyMap,
              verify_out |-> [called |-> attempt,
                              value |-> IF attempt THEN verified ELSE EmptyMap]]

\* _process_cached_paths: [targets, entries]; entries are appended to the new cache
RECURSIVE CachedLoop(_, _, _)
CachedLoop(device_name, cached_paths, acc) ==
    IF cached_paths = <<>> THEN acc
    ELSE LET path_info == Head(cached_paths)
         IN  CachedLoop(device_name, Tail(cached_paths),
                 IF exists(path_info.path)
                 THEN [targets |-> Append(acc.targets,
                                      FileTarget(path_info.path, device_name,
                                                 path_info.dest_rel, TRUE, FALSE)),
                       entries |-> Append(acc.entries,
                                      PathCacheEntry(path_info.path, path_info.dest_rel))]
                 ELSE acc)

\* faulty variant of _process_cached_paths: the cached pairs become targets but
\* are not written to the new cache
cached_paths_not_recorded(device_name, cached_paths) ==
    [targets |-> CachedLoop(device_name, cached_paths,
                            [targets |-> <<>>, entries |-> <<>>]).targets,
     entries |-> <<>>]

process_cached_paths(device_name, cached_paths) ==
    CachedLoop(device_name, cached_paths, [targets |-> <<>>, entries |-> <<>>])

\* faulty variant of the loop over the tiers: no break, the tiers' matches are merged
RECURSIVE SearchTiersMerged(_, _, _)
SearchTiersMerged(device_config, k, probed) ==
    IF k > Len(SCAN_ORDER_PRIORITY) THEN [found_items |-> <<>>, probed |-> probed]
    ELSE LET matched_items == search_rule_files(device_config.relative_path,
                                                SCAN_ORDER_PRIORITY[k].search_paths)
             rest == SearchTiersMerged(device_config, k + 1,
                                       Append(probed, SCAN_ORDER_PRIORITY[k].description))
         IN  [found_items |-> matched_items \o rest.found_items, probed |-> rest.probed]

\* _search_device_paths, the loop over the tiers from tier k on: [found_items, probed]
RECURSIVE SearchTiers(_, _, _)
SearchTiers(device_config, k, probed) ==
    IF k > Len(SCAN_ORDER_PRIORITY) THEN [found_items |-> <<>>, probed |-> probed]
    ELSE LET matched_items == search_rule_files(device_config.relative_path,
                                                SCAN_ORDER_PRIORITY[k].search_paths)
             probed_now == Append(probed, SCAN_ORDER_PRIORITY[k].description)
         IN  IF matched_items # <<>>
             THEN [found_items |-> matched_items, probed |-> probed_now]
             ELSE SearchTiers(device_config, k + 1, probed_now)

\* faulty variant of _search_device_paths: the probe rooted at / is never made
search_without_escalation(device_config) == SearchTiers(device_config, 1, <<>>)

\* _search_device_paths: [found_items, probed]; probed lists the probes made, in order
search_device_paths(device_config) ==
    LET tiers == SearchTiers(device_config, 1, <<>>)
    IN  IF tiers.found_items = <<>>
        THEN [found_items |-> search_rule_files(device_config.relative_path, ROOT_PATHS),
              probed |-> Append(tiers.probed, "root")]
        ELSE tiers

\* the condition of strategy 1 of _process_local_device (line 154)
UsesCachedPaths(device_name, use_cache_, verified_cache_) ==
    use_cache_ /\ device_name \in DOMAIN verified_cache_ /\ verified_cache_[device_name] # <<>>

\* faulty variant of the condition of strategy 2: an appliance without valid
\* cached entries is not probed when the cache was accepted
NeedsSearchWithoutCache(device_name, use_cache_, verified_cache_) == ~use_cache_

\* the condition of strategy 2 of _process_local_device (line 161)
NeedsSearch(device_name, use_cache_, verified_cache_) ==
    ~use_cache_ \/ device_name \notin DOMAIN verified_cache_ \/ verified_cache_[device_name] = <<>>

\* faulty variant: probed targets are not written to the new cache
NoCacheEntries(new_targets) == <<>>

\* the entries _process_local_device appends to new_path_cache for the probed targets
CacheEntriesOf(new_targets) ==
    [k \in 1..Len(new_targets) |-> PathCacheEntry(new_targets[k].src, new_targets[k].dest_rel)]

\* _process_local_device: [targets, entries, probed, found_items, searched]
process_local_device(device_name, device_config, use_cache_, verified_cache_) ==
    LET cached == IF UsesCachedPaths(device_name, use_cache_, verified_cache_)
                  THEN process_cached_paths(device_name, verified_cache_[device_name])
                  ELSE [targets |-> <<>>, entries |-> <<>>]
        searched == NeedsSearch(device_name, use_cache_, verified_cache_)
        search == IF searched THEN search_device_paths(device_config)
                  ELSE [found_items |-> <<>>, probed |-> <<>>]
        new_targets == IF searched
                       THEN process_found_items(search.found_items, device_name,
                                                device_config.file_type)
                       ELSE <<>>
    IN  [targets |-> cached.targets \o new_targets,
         entries |-> cached.entries \o CacheEntriesOf(new_targets),
         probed |-> search.probed, found_items |-> search.found_items,
         searched |-> searched]

\* _deduplicate_targets
RECURSIVE DedupLoop(_, _, _)
DedupLoop(targets, seen_source_paths, unique_targets) ==
    IF targets = <<>> THEN unique_targets
    ELSE IF Head(targets).src \notin seen_source_paths
    THEN DedupLoop(Tail(targets), seen_source_paths \cup {Head(targets).src},
                   Append(unique_targets, Head(targets)))
    ELSE DedupLoop(Tail(targets), seen_source_paths, unique_targets)

\* faulty variant of _deduplicate_targets: every target is kept
keep_all_targets(targets) == targets

deduplicate_targets(targets) == DedupLoop(targets, {}, <<>>)

\* faulty variant of _calculate_statistics: container files are counted among
\* the local files as well
statistics_counting_twice(targets) ==
    LET docker_files_count == Len(SelectSeq(targets, LAMBDA t : t.from_docker))
        cached_targets_count == Len(SelectSeq(targets, LAMBDA t : t.cached))
    IN  [docker_files |-> docker_files_count,
         local_files |-> Len(targets),
         cached_targets |-> cached_targets_count,
         new_targets |-> Len(targets) - cached_targets_count]

\* _calculate_statistics
calculate_statistics(targets) ==
    LET docker_files_count == Len(SelectSeq(targets, LAMBDA t : t.from_docker))
        cached_targets_count == Len(SelectSeq(targets, LAMBDA t : t.cached))
    IN  [docker_files |-> docker_files_count,
         local_files |-> Len(targets) - docker_files_count,
         cached_targets |-> cached_targets_count,
         new_targets |-> Len(targets) - cached_targets_count]

\* _generate_final_result
generate_final_result(stats, total_files, unchanged, changed_count, copied) ==
    CollectionResult(total_files, copied, unchanged, changed_count, stats.local_files,
                     stats.docker_files, stats.cached_targets, stats.new_targets)


(***************************************************************************)
(* The state machine.                                                      *)
(***************************************************************************)
ContainerShapes ==
    { [state |-> "absent", path_exists |-> FALSE, cp |-> "fail", tar |-> "fail"],
      [state |-> "exited", path_exists |-> FALSE, cp |-> "fail", tar |-> "fail"],
      [state |-> "running", path_exists |-> FALSE, cp |-> "fail", tar |-> "fail"],
      [state |-> "running", path_exists |-> TRUE, cp |-> "ok", tar |-> "ok"],
      [state |-> "running", path_exists |-> TRUE, cp |-> "fail", tar |-> "ok"],
      [state |-> "running", path_exists |-> TRUE, cp |-> "partial", tar |-> "ok"],
      [state |-> "running", path_exists |-> TRUE, cp |-> "fail", tar |-> "fail"],
      [state |-> "running", path_exists |-> TRUE, cp |-> "fail", tar |-> "hang"] }

WithContent(s, c) ==
    [state |-> s.state, path_exists |-> s.path_exists, cp |-> s.cp, tar |-> s.tar,
     content |-> c]

\* a site with the container appliance installed and working
HealthyContainer ==
    [state |-> "running", path_exists |-> TRUE, cp |-> "ok", tar |-> "ok", content |-> 1]

\* a host without the container
NoContainer ==
    [state |-> "absent", path_exists |-> FALSE, cp |-> "fail", tar |-> "fail", content |-> 1]

NoVerify == [called |-> FALSE, value |-> EmptyMap]

NoRun == [completed |-> FALSE, hash_file |-> AbsentFile, path_cache_file |-> AbsentFile,
          result |-> EmptyResult, out_tree |-> EmptyMap, temp_tree |-> EmptyMap,
          ended |-> "none", exit_code |-> 0]

\* copy_changed_files is not running
NoCopy == [idx |-> 0, step |-> "none"]

\* the values the locals of a run hold outside a run
RunLocalsReset ==
    /\ force_rescan' = FALSE
    /\ old_hash_record' = EmptyMap
    /\ path_cache' = EmptyMap
    /\ use_cache' = FALSE
    /\ verified_cache' = EmptyMap
    /\ verify_out' = NoVerify
    /\ dev_idx' = 0
    /\ scan_targets' = <<>>
    /\ device_out' = EmptyMap
    /\ new_path_cache' = EmptyMap
    /\ all_targets' = <<>>
    /\ new_hash_record' = EmptyMap
    /\ changed_files' = <<>>
    /\ unchanged_count' = 0
    /\ copied_files' = <<>>
    /\ copy_pos' = NoCopy
    /\ result' = EmptyResult

Init ==
    /\ fs \in [FileIds -> {0, 1}]
    /\ fs[LaterFile] = 0
    /\ fs[PrefixedZeekFile] = 0
    /\ \/ /\ fs[ZeekFile] = 1
          /\ container = HealthyContainer
       \/ /\ \A i \in FileIds \ {1} : fs[i] = 0
          /\ container = NoContainer
    /\ unreadable = {}
    /\ fault = "none"
    /\ hash_file = AbsentFile
    /\ path_cache_file = AbsentFile
    /\ out_tree = EmptyMap
    /\ temp_tree = EmptyMap
    /\ pc = "idle"
    /\ force_rescan = FALSE
    /\ old_hash_record = EmptyMap
    /\ path_cache = EmptyMap
    /\ use_cache = FALSE
    /\ verified_cache = EmptyMap
    /\ verify_out = NoVerify
    /\ dev_idx = 0
    /\ scan_targets = <<>>
    /\ device_out = EmptyMap
    /\ new_path_cache = EmptyMap
    /\ all_targets = <<>>
    /\ new_hash_record = EmptyMap
    /\ changed_files = <<>>
    /\ unchanged_count = 0
    /\ copied_files = <<>>
    /\ copy_pos = NoCopy
    /\ result = EmptyResult
    /\ runs = 0
    /\ edits = 0
    /\ prev = NoRun
    /\ dirty = FALSE

\* main -> collect_rules(force): phases 1 and 2, load the caches and decide the strategy
StartRun(force) ==
    /\ pc = "idle"
    /\ runs < MaxRuns
    /\ LET decision == decide_scan_strategy(force, load_path_cache)
       IN  /\ force_rescan' = force
           /\ old_hash_record' = load_hash_record
           /\ path_cache' = load_path_cache
           /\ use_cache' = decision.use_cache
           /\ verified_cache' = decision.verified_cache
           /\ verify_out' = decision.verify_out
    /\ dev_idx' = 1
    /\ scan_targets' = <<>>
    /\ device_out' = EmptyMap
    /\ new_path_cache' = EmptyMap
    /\ runs' = runs + 1
    /\ pc' = "scan"
    /\ UNCHANGED <<fs, unreadable, container, hash_file, path_cache_file, out_tree, temp_tree,
                   all_targets, new_hash_record, changed_files, unchanged_count,
                   copied_files, copy_pos, result, edits, prev, dirty, fault>>

\* _scan_rule_files: one iteration of the loop, container appliance.  The
\* iteration does not end while collect_from_docker_container is blocked; an
\* exception it raises reaches main.
ScanDocker ==
    /\ pc = "scan"
    /\ dev_idx <= Len(DeviceOrder)
    /\ get_all_devices[DeviceOrder[dev_idx]].type = "docker"
    /\ LET device_name == DeviceOrder[dev_idx]
           device_config == get_all_devices[device_name]
           r == collect_from_docker_container(temp_tree, device_config.container,
                    device_config.path, device_name, device_config.file_type)
       IN  /\ ~r.blocked
           /\ IF r.raised
              THEN /\ pc' = "failed"
                   /\ UNCHANGED <<new_path_cache, scan_targets, temp_tree, device_out, dev_idx>>
              ELSE /\ new_path_cache' = Put(new_path_cache, device_name, <<>>)
                   /\ scan_targets' = scan_targets \o r.targets
                   /\ temp_tree' = r.tree
                   /\ device_out' = Put(device_out, device_name,
                          [type |-> "docker", targets |-> r.targets, searched |-> FALSE,
                           probed |-> <<>>, found_items |-> <<>>, steps |-> r.steps,
                           file_type |-> device_config.file_type,
                           had_leftover |-> HasEntries(temp_tree, DOCKER_TEMP_DIR)])
                   /\ dev_idx' = dev_idx + 1
                   /\ pc' = pc
    /\ UNCHANGED <<fs, unreadable, container, hash_file, path_cache_file, out_tree,
                   force_rescan, old_hash_record, path_cache, use_cache, verified_cache,
                   verify_out, all_targets, new_hash_record, changed_files,
                   unchanged_count, copied_files, copy_pos, result, runs, edits, prev,
                   dirty, fault>>

\* _scan_rule_files: one iteration of the loop, local appliance
ScanLocal ==
    /\ pc = "scan"
    /\ dev_idx <= Len(DeviceOrder)
    /\ get_all_devices[DeviceOrder[dev_idx]].type # "docker"
    /\ LET device_name == DeviceOrder[dev_idx]
           device_config == get_all_devices[device_name]
           r == process_local_device(device_name, device_config, use_cache, verified_cache)
       IN  /\ new_path_cache' = Put(new_path_cache, device_name, r.entries)
           /\ scan_targets' = scan_targets \o r.targets
           /\ device_out' = Put(device_out, device_name,
                  [type |-> "local", targets |-> r.targets, searched |-> r.searched,
                   probed |-> r.probed, found_items |-> r.found_items, steps |-> <<>>,
                   file_type |-> device_config.file_type])
    /\ dev_idx' = dev_idx + 1
    /\ UNCHANGED <<fs, unreadable, container, hash_file, path_cache_file, out_tree, temp_tree,
                   pc, force_rescan, old_hash_record, path_cache, use_cache, verified_cache,
                   verify_out, all_targets, new_hash_record, changed_files,
                   unchanged_count, copied_files, copy_pos, result, runs, edits, prev,
                   dirty, fault>>

\* _scan_rule_files after the loop: save the new path cache, de-duplicate; then
\* collect_rules returns an empty CollectionResult when nothing was found
FinishScan ==
    /\ pc = "scan"
    /\ dev_idx > Len(DeviceOrder)
    /\ path_cache_file' = save_path_cache(new_path_cache)
    /\ all_targets' = deduplicate_targets(scan_targets)
    /\ pc' = IF deduplicate_targets(scan_targets) = <<>> THEN "done" ELSE "hash"
    /\ UNCHANGED <<fs, unreadable, container, hash_file, out_tree, temp_tree, force_rescan,
                   old_hash_record, path_cache, use_cache, verified_cache, verify_out,
                   dev_idx, scan_targets, device_out, new_path_cache, new_hash_record,
                   changed_files, unchanged_count, copied_files, copy_pos, result, runs,
                   edits, prev, dirty, fault>>

\* collect_rules phase 5, and the entry of copy_changed_files (lines 137-141):
\* with no changed file the copy returns at once
HashFiles ==
    /\ pc = "hash"
    /\ LET h == calculate_file_hashes(all_targets, old_hash_record)
       IN  IF hash_lookup_raises(all_targets, old_hash_record)
           THEN /\ pc' = "failed"
                /\ UNCHANGED <<new_hash_record, changed_files, unchanged_count, copy_pos>>
           ELSE /\ new_hash_record' = h.new_hash_record
                /\ changed_files' = h.changed_files
                /\ unchanged_count' = h.unchanged_count
                /\ pc' = IF h.changed_files = <<>> THEN "save" ELSE "copy"
                /\ copy_pos' = IF h.changed_files = <<>> THEN NoCopy
                               ELSE [idx |-> 1, step |-> "temp"]
    /\ UNCHANGED <<fs, unreadable, container, hash_file, path_cache_file, out_tree, temp_tree,
                   force_rescan, old_hash_record, path_cache, use_cache, verified_cache,
                   verify_out, dev_idx, scan_targets, device_out, new_path_cache,
                   all_targets, copied_files, result, runs, edits, prev, dirty, fault>>

\* what the copy steps leave alone
CopyUnchanged ==
    UNCHANGED <<fs, unreadable, container, hash_file, path_cache_file, temp_tree,
                force_rescan, old_hash_record, path_cache, use_cache, verified_cache,
                verify_out, dev_idx, scan_targets, device_out, new_path_cache,
                all_targets, new_hash_record, changed_files, unchanged_count, result,
                runs, edits, prev, dirty, fault>>

\* copy_changed_files: the loop moves to the next changed target, or ends
NextTarget ==
    IF copy_pos.idx < Len(changed_files)
    THEN pc' = pc /\ copy_pos' = [idx |-> copy_pos.idx + 1, step |-> "temp"]
    ELSE pc' = "save" /\ copy_pos' = NoCopy

\* copy_changed_files lines 162-164 and safe_copy lines 89-92: the destination
\* directory is created (an exception of os.makedirs reaches main), then the
\* source is copied to the temp file
CopyToTemp ==
    /\ pc = "copy" /\ copy_pos.step = "temp"
    /\ LET target == changed_files[copy_pos.idx]
           destination_path == DestinationPath(target)
           c == copy2(out_tree, target.src, TempPath(destination_path))
       IN  IF makedirs_raises(destination_path)
           THEN pc' = "failed" /\ UNCHANGED <<out_tree, copy_pos>>
           ELSE /\ out_tree' = c.tree
                /\ copy_pos' = [copy_pos EXCEPT !.step = IF c.ok THEN "replace" ELSE "cleanup"]
                /\ pc' = pc
    /\ UNCHANGED copied_files
    /\ CopyUnchanged

\* safe_copy lines 93-103 after a complete temp file: os.replace, and on its
\* failure the removal of the temp file; copy_changed_files lines 166-169
ReplaceDestination ==
    /\ pc = "copy" /\ copy_pos.step = "replace"
    /\ LET destination_path == DestinationPath(changed_files[copy_pos.idx])
           r == replace(out_tree, TempPath(destination_path), destination_path)
       IN  /\ out_tree' = IF r.ok THEN r.tree
                          ELSE remove_temp(out_tree, TempPath(destination_path))
           /\ copied_files' = IF r.ok THEN Append(copied_files, destination_path)
                              ELSE copied_files
    /\ NextTarget
    /\ CopyUnchanged

\* safe_copy lines 95-103 after a failed shutil.copy2: the temp file is removed
\* if it exists and False is returned
RemoveTemp ==
    /\ pc = "copy" /\ copy_pos.step = "cleanup"
    /\ out_tree' = remove_temp(out_tree, TempPath(DestinationPath(changed_files[copy_pos.idx])))
    /\ NextTarget
    /\ UNCHANGED copied_files
    /\ CopyUnchanged

\* collect_rules phases 7 and 8
SaveAndReport ==
    /\ pc = "save"
    /\ hash_file' = save_hash_record(new_hash_record)
    /\ result' = generate_final_result(calculate_statistics(all_targets), Len(all_targets),
                                       unchanged_count, Len(changed_files), copied_files)
    /\ pc' = "done"
    /\ UNCHANGED <<fs, unreadable, container, path_cache_file, out_tree, temp_tree,
                   force_rescan, old_hash_record, path_cache, use_cache, verified_cache,
                   verify_out, dev_idx, scan_targets, device_out, new_path_cache,
                   all_targets, new_hash_record, changed_files, unchanged_count,
                   copied_files, copy_pos, runs, edits, prev, dirty, fault>>

\* main, lines 89-93: a KeyboardInterrupt raised anywhere in collect_rules passes
\* every `except Exception` of the run and reaches the handler of main
Interrupt ==
    /\ pc \in {"scan", "hash", "copy", "save"}
    /\ edits < MaxEdits
    /\ edits' = edits + 1
    /\ pc' = "interrupted"
    /\ UNCHANGED <<fs, unreadable, container, hash_file, path_cache_file, out_tree, temp_tree,
                   force_rescan, old_hash_record, path_cache, use_cache, verified_cache,
                   verify_out, dev_idx, scan_targets, device_out, new_path_cache,
                   all_targets, new_hash_record, changed_files, unchanged_count,
                   copied_files, copy_pos, result, runs, prev, dirty, fault>>

\* main, lines 87-98: the exit status of the process; sys.exit(1) in both handlers
ExitCode(ended) == IF ended \in {"done", "cleared"} THEN 0 ELSE 1

\* faulty variant of the finally clause: the temporary directory is left alone
cleanup_skipped(tree) == tree

\* main, lines 99-106: the finally clause removes DOCKER_TEMP_DIR
cleanup_temp(tree) == rmtree(tree, DOCKER_TEMP_DIR)

\* main, the finally clause, then the process ends: after collect_rules returned
\* ("done"), after an exception ("failed") or after an interrupt ("interrupted")
Exit ==
    /\ pc \in {"done", "failed", "interrupted"}
    /\ temp_tree' = cleanup_temp(temp_tree)
    /\ prev' = [completed |-> pc = "done", hash_file |-> hash_file,
                path_cache_file |-> path_cache_file, result |-> result,
                out_tree |-> out_tree, temp_tree |-> temp_tree,
                ended |-> pc, exit_code |-> ExitCode(pc)]
    /\ dirty' = FALSE
    /\ pc' = "idle"
    /\ RunLocalsReset
    /\ UNCHANGED <<fs, unreadable, container, hash_file, path_cache_file, out_tree,
                   runs, edits, fault>>

\* faulty variant of the removal: the file stays
remove_skipped(file) == file

\* os.remove of a cache file that exists (main.py lines 28-29)
remove_cache_file(file) == AbsentFile

\* main -> clear_cache, then the finally clause: both cache files and the
\* temporary directory are removed; no collection takes place
ClearCache ==
    /\ pc = "idle" /\ edits < MaxEdits
    /\ hash_file' = remove_cache_file(hash_file)
    /\ path_cache_file' = remove_cache_file(path_cache_file)
    /\ temp_tree' = cleanup_temp(rmtree(temp_tree, DOCKER_TEMP_DIR))
    /\ prev' = [prev EXCEPT !.ended = "cleared", !.exit_code = ExitCode("cleared")]
    /\ edits' = edits + 1 /\ dirty' = TRUE
    /\ UNCHANGED <<fs, unreadable, container, fault, out_tree, pc, force_rescan,
                   old_hash_record, path_cache, use_cache, verified_cache, verify_out,
                   dev_idx, scan_targets, device_out, new_path_cache, all_targets,
                   new_hash_record, changed_files, unchanged_count, copied_files, copy_pos,
                   result, runs>>

EnvUnchanged ==
    UNCHANGED <<hash_file, path_cache_file, out_tree, temp_tree, pc, force_rescan,
                old_hash_record, path_cache, use_cache, verified_cache, verify_out,
                dev_idx, scan_targets, device_out, new_path_cache, all_targets,
                new_hash_record, changed_files, unchanged_count, copied_files, copy_pos,
                result, runs, prev>>

\* the environment between two runs: a file is created or rewritten
WriteFile(i, c) ==
    /\ pc = "idle" /\ edits < MaxEdits
    /\ fs[i] # c
    /\ fs' = [fs EXCEPT ![i] = c]
    /\ edits' = edits + 1 /\ dirty' = TRUE
    /\ UNCHANGED <<unreadable, container, fault>>
    /\ EnvUnchanged

\* the environment between two runs: a file is removed
DeleteFile(i) ==
    /\ pc = "idle" /\ edits < MaxEdits
    /\ fs[i] # 0
    /\ fs' = [fs EXCEPT ![i] = 0]
    /\ unreadable' = unreadable \ {i}
    /\ edits' = edits + 1 /\ dirty' = TRUE
    /\ UNCHANGED <<container, fault>>
    /\ EnvUnchanged

\* the environment between two runs: a file loses or regains its read permission
Chmod(i) ==
    /\ pc = "idle" /\ edits < MaxEdits
    /\ fs[i] # 0
    /\ unreadable' = IF i \in unreadable THEN unreadable \ {i} ELSE unreadable \cup {i}
    /\ edits' = edits + 1 /\ dirty' = TRUE
    /\ UNCHANGED <<fs, container, fault>>
    /\ EnvUnchanged

\* the environment between two runs: the container runtime changes, or the rule
\* file inside the container is rewritten
ContainerChange(s, c) ==
    /\ pc = "idle" /\ edits < MaxEdits
    /\ WithContent(s, c) # container
    /\ (WithContent(s, container.content) = container \/ c = container.content)
    /\ container' = WithContent(s, c)
    /\ edits' = edits + 1 /\ dirty' = TRUE
    /\ UNCHANGED <<fs, unreadable, fault>>
    /\ EnvUnchanged

\* the environment between two runs: a cache file is deleted or its content is
\* replaced by something the collector did not write
DamageFile(f, kind) ==
    /\ pc = "idle" /\ edits < MaxEdits
    /\ IF f = "hash"
       THEN /\ hash_file.present
            /\ hash_file' = IF kind = "missing" THEN AbsentFile ELSE DamagedFile(kind)
            /\ UNCHANGED path_cache_file
       ELSE /\ path_cache_file.present
            /\ path_cache_file' = IF kind = "missing" THEN AbsentFile ELSE DamagedFile(kind)
            /\ UNCHANGED hash_file
    /\ edits' = edits + 1 /\ dirty' = TRUE
    /\ UNCHANGED <<fs, unreadable, container, fault>>
    /\ UNCHANGED <<out_tree, temp_tree, pc, force_rescan,
                   old_hash_record, path_cache, use_cache, verified_cache, verify_out,
                   dev_idx, scan_targets, device_out, new_path_cache, all_targets,
                   new_hash_record, changed_files, unchanged_count, copied_files, copy_pos,
                   result, runs, prev>>

\* the environment between two runs: the output tree starts or stops failing
SetFault(k) ==
    /\ pc = "idle" /\ edits < MaxEdits
    /\ fault # k
    /\ fault' = k
    /\ edits' = edits + 1 /\ dirty' = TRUE
    /\ UNCHANGED <<fs, unreadable, container>>
    /\ EnvUnchanged

Next ==
    \/ \E force \in BOOLEAN : StartRun(force)
    \/ ScanDocker
    \/ ScanLocal
    \/ FinishScan
    \/ HashFiles
    \/ CopyToTemp
    \/ ReplaceDestination
    \/ RemoveTemp
    \/ SaveAndReport
    \/ Interrupt
    \/ Exit
    \/ ClearCache
    \/ \E i \in FileIds, c \in 1..MaxContent : WriteFile(i, c)
    \/ \E i \in FileIds : DeleteFile(i)
    \/ \E i \in FileIds : Chmod(i)
    \/ \E s \in ContainerShapes, c \in 1..MaxContent : ContainerChange(s, c)
    \/ \E k \in FaultKinds : SetFault(k)
    \/ \E f \in {"hash", "cache"}, kind \in DamageKinds : DamageFile(f, kind)

Spec == Init /\ [][Next]_vars

(***************************************************************************)
(* The conversion of matches into targets on its own, for appliances whose *)
(* file type and matches are inputs: DeviceConfig(file_type=...) registered*)
(* with add_device, and any list of existing paths a probe can return.     *)
(***************************************************************************)
FileTypes == {"", "rules", "zeek", "json"}

LocalNames == {d \in DeviceNames : Devices[d].type = "local"}

\* the paths of the universe that exist, files and directories
ExistingPaths == {AllPaths[k] : k \in {j \in 1..Len(AllPaths) : exists(AllPaths[j])}}

\* what FileUtils.search_files can return: lists of distinct existing paths,
\* here of at most two
ItemLists ==
    {<<>>} \cup {<<p>> : p \in ExistingPaths}
           \cup {pq \in ExistingPaths \X ExistingPaths : pq[1] # pq[2]}

ConvUnchanged ==
    UNCHANGED <<fs, unreadable, container, hash_file, path_cache_file, out_tree, pc,
                force_rescan, old_hash_record, path_cache, use_cache, verified_cache,
                verify_out, dev_idx, scan_targets, new_path_cache, all_targets,
                new_hash_record, changed_files, unchanged_count, copied_files, copy_pos,
                result, runs, edits, prev, dirty, fault>>

\* _process_local_device, lines 162-165, for a local appliance of the registry
\* configured with the given file type
ProbeWith(device_name, file_extension) ==
    /\ device_out = EmptyMap
    /\ LET search == search_device_paths(get_all_devices[device_name])
       IN  device_out' = Put(device_out, device_name,
               [type |-> "local",
                targets |-> process_found_items(search.found_items, device_name,
                                                file_extension),
                searched |-> TRUE, probed |-> search.probed,
                found_items |-> search.found_items, steps |-> <<>>,
                file_type |-> file_extension])
    /\ UNCHANGED temp_tree
    /\ ConvUnchanged

\* process_found_items on a list of matches
ConvertItems(device_name, found_items, file_extension) ==
    /\ device_out = EmptyMap
    /\ device_out' = Put(device_out, device_name,
           [type |-> "local",
            targets |-> process_found_items(found_items, device_name, file_extension),
            searched |-> TRUE, probed |-> <<>>, found_items |-> found_items,
            steps |-> <<>>, file_type |-> file_extension])
    /\ UNCHANGED temp_tree
    /\ ConvUnchanged

\* collect_from_docker_container for the container appliance configured with
\* the given file type
ExtractWith(device_name, file_extension) ==
    /\ device_out = EmptyMap
    /\ LET device_config == get_all_devices[device_name]
           r == collect_from_docker_container(temp_tree, device_config.container,
                    device_config.path, device_name, file_extension)
       IN  /\ ~r.blocked /\ ~r.raised
           /\ temp_tree' = r.tree
           /\ device_out' = Put(device_out, device_name,
                  [type |-> "docker", targets |-> r.targets, searched |-> FALSE,
                   probed |-> <<>>, found_items |-> <<>>, steps |-> r.steps,
                   file_type |-> file_extension,
                   had_leftover |-> HasEntries(temp_tree, DOCKER_TEMP_DIR)])
    /\ ConvUnchanged

ConvNext ==
    \/ \E d \in LocalNames, e \in FileTypes : ProbeWith(d, e)
    \/ \E items \in ItemLists, e \in FileTypes : ConvertItems("snort", items, e)
    \/ \E d \in DeviceNames \ LocalNames, e \in FileTypes : ExtractWith(d, e)

\* the container appliance of the registry and its temporary destination
DockerName == CHOOSE d \in DeviceNames : Devices[d].type = "docker"

DockerDestination == TempDestination(DockerName, Devices[DockerName].container)

\* what a process that was killed during an extraction leaves below the
\* temporary directory: nothing, a file of the direct copy, or files of the
\* tar stream
LeftoverTrees ==
    { EmptyMap,
      (join(DockerDestination, ContainerFiles[1]) :> MaxContent),
      (join(join(DockerDestination, basename(Devices[DockerName].path)), ContainerFiles[1])
          :> MaxContent),
      (join(DockerDestination, ContainerFiles[1]) :> MaxContent)
          @@ (join(DockerDestination, ContainerFiles[2]) :> MaxContent) }

\* the inputs of an extraction: a host without rule files, the container
\* runtime in any of its shapes, and the temporary directory as an earlier
\* process left it
ExtractInit ==
    /\ fs = [i \in FileIds |-> 0]
    /\ \E s \in ContainerShapes, c \in 1..MaxContent : container = WithContent(s, c)
    /\ temp_tree \in LeftoverTrees
    /\ unreadable = {}
    /\ fault = "none"
    /\ hash_file = AbsentFile
    /\ path_cache_file = AbsentFile
    /\ out_tree = EmptyMap
    /\ pc = "idle"
    /\ force_rescan = FALSE
    /\ old_hash_record = EmptyMap
    /\ path_cache = EmptyMap
    /\ use_cache = FALSE
    /\ verified_cache = EmptyMap
    /\ verify_out = NoVerify
    /\ dev_idx = 0
    /\ scan_targets = <<>>
    /\ device_out = EmptyMap
    /\ new_path_cache = EmptyMap
    /\ all_targets = <<>>
    /\ new_hash_record = EmptyMap
    /\ changed_files = <<>>
    /\ unchanged_count = 0
    /\ copied_files = <<>>
    /\ copy_pos = NoCopy
    /\ result = EmptyResult
    /\ runs = 0
    /\ edits = 0
    /\ prev = NoRun
    /\ dirty = FALSE

ConvInit == Init \/ ExtractInit

ConvSpec == ConvInit /\ [][ConvNext]_vars


(***************************************************************************)
(* Properties.                                                             *)
(***************************************************************************)
InRun == pc # "idle"

Scanned == pc \in {"hash", "copy", "save", "done"}

LocalDone == {d \in DOMAIN device_out : device_out[d].type = "local"}

PairsOf(targets) == [k \in 1..Len(targets) |-> <<targets[k].src, targets[k].dest_rel>>]

EntryPairs(entries) == [k \in 1..Len(entries) |-> <<entries[k].path, entries[k].dest_rel>>]

\* C3: the cache is the basis of a run exactly when the run is not forced, the
\* loaded cache has a key, and some entry's source path exists; in every other
\* case each local appliance processed so far was probed and has no cached target.
CacheAcceptable ==
    /\ ~force_rescan
    /\ path_cache # EmptyMap
    /\ \E d \in DOMAIN path_cache : \E k \in 1..Len(path_cache[d]) : exists(path_cache[d][k].path)

C3_GlobalCacheDecision ==
    InRun =>
        /\ use_cache <=> CacheAcceptable
        /\ ~use_cache =>
              \A d \in LocalDone :
                  /\ device_out[d].probed # <<>>
                  /\ \A k \in 1..Len(device_out[d].targets) : ~device_out[d].targets[k].cached

\* C3 witness: a default run loaded a cache with entries, none of them
\* survived, and every local appliance was probed.
C3_Witness ==
    /\ pc = "done" /\ ~force_rescan /\ ~use_cache
    /\ \E d \in DOMAIN path_cache : path_cache[d] # <<>>
    /\ LocalDone # {}
    /\ \A d \in LocalDone : device_out[d].probed # <<>>

\* the entries of appliance d the run may rely on
ValidEntries(d) == IF use_cache /\ d \in DOMAIN verified_cache THEN verified_cache[d] ELSE <<>>

\* C4: a local appliance is probed exactly when caching was not accepted or it
\* has no valid cached entry; otherwise its targets are its cached pairs whose
\* source exists, all marked as cached.
C4_PerApplianceProbe ==
    InRun =>
        \A d \in LocalDone :
            /\ device_out[d].probed # <<>> <=> (~use_cache \/ ValidEntries(d) = <<>>)
            /\ ValidEntries(d) # <<>> =>
                  /\ PairsOf(device_out[d].targets)
                        = EntryPairs(SelectSeq(ValidEntries(d), LAMBDA e : exists(e.path)))
                  /\ \A k \in 1..Len(device_out[d].targets) :
                        /\ device_out[d].targets[k].cached
                        /\ device_out[d].targets[k].device = d

\* C4 witness: in one run with the cache accepted, one local appliance took its
\* targets from the cache and another, without valid entries, was probed.
C4_Witness ==
    /\ pc = "done" /\ use_cache
    /\ \E d \in LocalDone : ValidEntries(d) # <<>> /\ device_out[d].probed = <<>>
    /\ \E d \in LocalDone : ValidEntries(d) = <<>> /\ device_out[d].targets # <<>>

\* C5: verify maps every key of the loaded cache to the sub-list of its entries
\* whose source path exists, in the original order, and has no other key.
C5_VerifyFilters ==
    (InRun /\ verify_out.called) =>
        /\ DOMAIN verify_out.value = DOMAIN path_cache
        /\ \A d \in DOMAIN path_cache :
              verify_out.value[d] = SelectSeq(path_cache[d], LAMBDA e : exists(e.path))

\* C5 witness: verify dropped an entry of one appliance, emptied another one's
\* list (or the same) and kept an entry.
C5_Witness ==
    /\ InRun /\ verify_out.called
    /\ \E d \in DOMAIN path_cache :
          /\ path_cache[d] # <<>>
          /\ verify_out.value[d] = <<>>
    /\ \E d \in DOMAIN path_cache : verify_out.value[d] # <<>>


\* the probe of tier k for appliance d
TierProbe(d, k) == search_rule_files(Devices[d].relative_path, SCAN_ORDER_PRIORITY[k].search_paths)

TierIds == 1..Len(SCAN_ORDER_PRIORITY)

HitTiers(d) == {k \in TierIds : TierProbe(d, k) # <<>>}

FirstHit(d) == CHOOSE k \in HitTiers(d) : \A j \in HitTiers(d) : k <= j

Probed == {d \in LocalDone : device_out[d].probed # <<>>}

\* C7: when some tier has a match, the search result of a probed appliance is the
\* probe result of the first such tier alone, and the probes made are exactly
\* the tiers up to that one, in order.
C7_TierShortCircuit ==
    InRun =>
        \A d \in Probed :
            HitTiers(d) # {} =>
                /\ device_out[d].found_items = TierProbe(d, FirstHit(d))
                /\ device_out[d].probed
                      = [k \in 1..FirstHit(d) |-> SCAN_ORDER_PRIORITY[k].description]

\* C7 witness: an appliance has matches in the first and in the second tier and
\* its search ended after the first.
C7_Witness ==
    /\ InRun
    /\ \E d \in Probed :
          /\ TierProbe(d, 1) # <<>>
          /\ TierProbe(d, 2) # <<>>
          /\ \E p \in SeqRange(TierProbe(d, 2)) : ~InSeq(p, device_out[d].found_items)

RootProbe(d) == search_rule_files(Devices[d].relative_path, ROOT_PATHS)

TimesProbed(d, label) == Len(SelectSeq(device_out[d].probed, LAMBDA x : x = label))

\* C8: the probe rooted at / is made for a local appliance exactly when the
\* appliance was probed and every tier yielded nothing; it is made once, after
\* all the tiers, and its matches are the search result.
C8_Escalation ==
    InRun =>
        \A d \in LocalDone :
            /\ TimesProbed(d, "root") <= 1
            /\ TimesProbed(d, "root") = 1 <=> (d \in Probed /\ HitTiers(d) = {})
            /\ TimesProbed(d, "root") = 1 =>
                  /\ device_out[d].probed
                        = [k \in TierIds |-> SCAN_ORDER_PRIORITY[k].description] \o <<"root">>
                  /\ device_out[d].found_items = RootProbe(d)

\* C8 witness: an appliance without a match in any tier was found by the probe
\* rooted at /.
C8_Witness ==
    /\ InRun
    /\ \E d \in LocalDone :
          /\ TimesProbed(d, "root") = 1
          /\ device_out[d].found_items # <<>>
          /\ device_out[d].targets # <<>>

\* the positions of s that hold the first target of their source path
FirstPositions(s) ==
    SelectSeq([k \in 1..Len(s) |-> k], LAMBDA k : \A j \in 1..(k - 1) : s[j].src # s[k].src)

\* C9: the targets handed to hashing and copy hold every source path once; they
\* are the first targets of their source path in discovery order, in that order.
C9_GlobalDedup ==
    Scanned =>
        /\ \A i, j \in 1..Len(all_targets) :
              all_targets[i].src = all_targets[j].src => i = j
        /\ all_targets
              = [i \in 1..Len(FirstPositions(scan_targets)) |->
                    scan_targets[FirstPositions(scan_targets)[i]]]

\* C9 witness: two appliances discovered the same source path and the target of
\* the appliance that comes first in the registry survived.
C9_Witness ==
    /\ Scanned
    /\ \E i, j \in 1..Len(scan_targets) :
          /\ i < j
          /\ scan_targets[i].src = scan_targets[j].src
          /\ scan_targets[i].device # scan_targets[j].device
          /\ InSeq(scan_targets[i], all_targets)
          /\ ~InSeq(scan_targets[j], all_targets)

Hashed == pc \in {"copy", "save"} \/ (pc = "done" /\ all_targets # <<>>)

Reverse(s) == [k \in 1..Len(s) |-> s[Len(s) + 1 - k]]

IsChanged(t) ==
    \/ t.src \notin DOMAIN old_hash_record
    \/ old_hash_record[t.src] # calculate_file_hash(t.src)

\* C10: a target whose digest can be computed is in the changed list exactly
\* when its path is absent from the previous record or the digest differs, and
\* is counted unchanged otherwise; hashing the targets in the opposite order
\* gives the same record, the same changed targets and the same count.
C10_ChangeClassification ==
    Hashed =>
        /\ \A k \in 1..Len(all_targets) :
              calculate_file_hash(all_targets[k].src) # 0 =>
                  (InSeq(all_targets[k], changed_files) <=> IsChanged(all_targets[k]))
        /\ unchanged_count
              = Cardinality({k \in 1..Len(all_targets) :
                                /\ calculate_file_hash(all_targets[k].src) # 0
                                /\ ~IsChanged(all_targets[k])})
        /\ LET r == calculate_file_hashes(Reverse(all_targets), old_hash_record)
           IN  /\ r.new_hash_record = new_hash_record
               /\ SeqRange(r.changed_files) = SeqRange(changed_files)
               /\ r.unchanged_count = unchanged_count

\* C10 witness: one run classified a recorded file with a new digest as changed
\* and a recorded file with the recorded digest as unchanged.
C10_Witness ==
    /\ Hashed
    /\ unchanged_count > 0
    /\ \E k \in 1..Len(changed_files) :
          /\ changed_files[k].src \in DOMAIN old_hash_record
          /\ old_hash_record[changed_files[k].src] # calculate_file_hash(changed_files[k].src)


\* the cache entries that stand for the targets appliance d produced in this run
ProducedEntries(d) ==
    [k \in 1..Len(device_out[d].targets) |->
        PathCacheEntry(device_out[d].targets[k].src, device_out[d].targets[k].dest_rel)]

\* C6 as claimed: after the scan phase the persisted path cache maps every
\* appliance of the registry to the pairs of the targets it produced in this run.
C6_CacheHoldsAllTargets ==
    Scanned =>
        /\ path_cache_file.present
        /\ DOMAIN path_cache_file.data = DeviceNames
        /\ \A d \in DeviceNames : path_cache_file.data[d] = ProducedEntries(d)

\* C6 amended: after the scan phase the persisted path cache maps every local
\* appliance to the pairs of the targets it produced in this run, from the cache
\* or from a probe, and every container appliance to the empty list.
C6_CacheRegenerated ==
    Scanned =>
        /\ path_cache_file.present
        /\ DOMAIN path_cache_file.data = DeviceNames
        /\ \A d \in DeviceNames :
              path_cache_file.data[d]
                 = IF Devices[d].type = "local" THEN ProducedEntries(d) ELSE <<>>

\* C6 witness: the run took one appliance's targets from the cache, probed
\* another, extracted files from the container, and an entry of the loaded
\* cache is gone from the persisted one.
C6_Witness ==
    /\ Scanned
    /\ \E d \in LocalDone : device_out[d].probed = <<>> /\ device_out[d].targets # <<>>
    /\ \E d \in LocalDone : device_out[d].probed # <<>> /\ device_out[d].targets # <<>>
    /\ \E d \in DOMAIN device_out : device_out[d].type = "docker" /\ device_out[d].targets # <<>>
    /\ \E d \in DOMAIN path_cache : \E k \in 1..Len(path_cache[d]) :
          ~InSeq(path_cache[d][k], path_cache_file.data[d])

\* the scenario of C2: the earlier run recorded file a of the matched directory,
\* its content is unchanged, file b was created in the same directory since,
\* and nothing else can be collected
NewFileScenario ==
    /\ prev.completed /\ dirty
    /\ fs[1] # 0 /\ fs[LaterFile] # 0
    /\ \A i \in FileIds \ {1, LaterFile} : fs[i] = 0
    /\ unreadable = {}
    /\ container.state = "absent"
    /\ fault = "none"
    /\ old_hash_record = (HostFiles[1] :> Md5(fs[1]))
    /\ "suricata" \in DOMAIN path_cache
    /\ EntryPairs(path_cache["suricata"]) = << <<HostFiles[1], <<"a", ".", "rules">> >> >>

\* C2: in that scenario the run, default or forced, reports one unchanged and
\* one changed file and copies exactly the new file.
C2_NewFileDiscovered ==
    (pc = "done" /\ NewFileScenario) =>
        /\ result.unchanged = 1
        /\ result.changed = 1
        /\ result.copied = << <<"collected_rules", "/", "suricata", "/", "b", ".", "rules">> >>

\* C2 restricted to forced runs
C2_ForcedRunDiscovers ==
    (pc = "done" /\ NewFileScenario /\ force_rescan) =>
        /\ result.unchanged = 1
        /\ result.changed = 1
        /\ result.copied = << <<"collected_rules", "/", "suricata", "/", "b", ".", "rules">> >>

C2_ForcedReached == pc = "done" /\ NewFileScenario /\ force_rescan

\* C1: a run that follows a completed run, with no change of the environment in
\* between, reports no changed file and leaves the hash record the earlier run left.
C1_Idempotent ==
    (pc = "done" /\ prev.completed /\ ~dirty) =>
        /\ result.changed = 0
        /\ hash_file = prev.hash_file

\* C1 restricted to default runs
C1_DefaultIdempotent ==
    (pc = "done" /\ prev.completed /\ ~dirty /\ ~force_rescan) =>
        /\ result.changed = 0
        /\ hash_file = prev.hash_file

\* C11: the path cache is persisted when the scan phase ends, before any
\* hashing; until the copy pass is over the hash record file holds what the run
\* loaded from it, and a run that aborts leaves it so; a run with targets
\* persists the new hash record once the copy pass is over.
C11_PersistOrder ==
    /\ pc = "scan" => (load_path_cache = path_cache /\ load_hash_record = old_hash_record)
    /\ pc \in {"hash", "copy", "save"} =>
          (path_cache_file = StoredFile(new_path_cache) /\ load_hash_record = old_hash_record)
    /\ pc = "failed" => load_hash_record = old_hash_record
    /\ (pc = "done" /\ all_targets # <<>>) =>
          (hash_file = StoredFile(new_hash_record) /\ copy_pos = NoCopy)

\* C11 witness: a run aborted during the copy pass, after it had persisted a
\* new path cache.
C11_Witness ==
    /\ pc = "failed" /\ copy_pos.idx > 0
    /\ path_cache_file = StoredFile(new_path_cache)
    /\ path_cache_file # prev.path_cache_file

\* the record of the targets of this run whose digest can be computed
HashedRecord ==
    [p \in {all_targets[k].src : k \in {j \in 1..Len(all_targets) :
                                          calculate_file_hash(all_targets[j].src) # 0}}
        |-> calculate_file_hash(p)]

\* C12: after every completed run, one without targets included, the persisted
\* hash record holds exactly the paths hashed in that run with their digests.
C12_RecordRewritten == pc = "done" => load_hash_record = HashedRecord

\* C12 restricted to runs that found a target
C12_RewrittenWhenTargets ==
    (pc = "done" /\ all_targets # <<>>) => hash_file = StoredFile(HashedRecord)

\* a path of the previous record is dropped by a run that found targets
C12_PathDropped ==
    /\ pc = "done" /\ all_targets # <<>>
    /\ \E p \in DOMAIN old_hash_record : p \notin DOMAIN hash_file.data

\* C13: a target whose digest cannot be computed is in neither the new hash
\* record nor the changed list nor the unchanged count; every other target is
\* in the record with its digest and is classified.
C13_HashFailurePerFile ==
    Hashed =>
        /\ \A k \in 1..Len(all_targets) :
              LET t == all_targets[k]
              IN  IF calculate_file_hash(t.src) = 0
                  THEN t.src \notin DOMAIN new_hash_record /\ ~InSeq(t, changed_files)
                  ELSE /\ t.src \in DOMAIN new_hash_record
                       /\ new_hash_record[t.src] = calculate_file_hash(t.src)
        /\ unchanged_count + Len(changed_files)
              = Cardinality({k \in 1..Len(all_targets) :
                                calculate_file_hash(all_targets[k].src) # 0})

\* C13 witness: a target that cannot be hashed comes before one that is hashed
\* and follows one that is hashed.
C13_Witness ==
    /\ Hashed
    /\ \E i, j, k \in 1..Len(all_targets) :
          /\ i < j /\ j < k
          /\ calculate_file_hash(all_targets[i].src) # 0
          /\ calculate_file_hash(all_targets[j].src) = 0
          /\ all_targets[k].src \in DOMAIN new_hash_record

IsTempPath(p) == p[Len(p)] = ".tmp"

\* the copy of this target fails inside safe_copy
CopyFails(target) ==
    fault \in {"write", "replace"} /\ FaultyDestination(DestinationPath(target))

\* the changed targets whose turn in the copy pass is over
CopyAttempted ==
    IF pc \in {"save", "done"} THEN 1..Len(changed_files)
    ELSE IF pc = "copy" THEN 1..(copy_pos.idx - 1)
    ELSE {}

C15_FailureSkipsOneTarget ==
    /\ pc = "failed" => copy_pos = NoCopy
    /\ (pc = "done" /\ changed_files # <<>>) =>
          /\ hash_file = StoredFile(new_hash_record)
          /\ \A k \in 1..Len(changed_files) :
                ~CopyFails(changed_files[k]) =>
                    InSeq(DestinationPath(changed_files[k]), copied_files)

\* C15 restricted to failures inside safe_copy: the run is over, a target
\* whose copy failed was skipped, a later one was copied and the hash record
\* was persisted
C15_SafeCopyFailureSkipped ==
    (pc = "done" /\ fault \in {"write", "replace"} /\ changed_files # <<>>) =>
        /\ hash_file = StoredFile(new_hash_record)
        /\ \A k \in 1..Len(changed_files) :
              InSeq(DestinationPath(changed_files[k]), copied_files)
                 <=> ~CopyFails(changed_files[k])

C15_SafeCopyFailureReached ==
    /\ pc = "done" /\ fault \in {"write", "replace"}
    /\ \E j, k \in 1..Len(changed_files) :
          /\ j < k
          /\ CopyFails(changed_files[j])
          /\ InSeq(DestinationPath(changed_files[k]), copied_files)

\* the container appliances processed so far in this run
DockerDone == {d \in DOMAIN device_out : device_out[d].type = "docker"}

\* the three checks that come before the extraction
ChecksPassed == container.state = "running" /\ container.path_exists

\* C16: the steps of a container appliance are taken in the order resolve,
\* running state, path, direct copy, tar stream; an extraction method is
\* invoked exactly when the container resolved, runs and holds the path; a
\* failed check ends the appliance at that check with no target.
C16_ContainerChecksFirst ==
    \A d \in DockerDone :
        LET steps == device_out[d].steps
        IN  /\ IsPrefixOf(steps, <<"resolve", "running", "path", "cp", "tar">>)
            /\ InSeq("cp", steps) <=> ChecksPassed
            /\ container.state = "absent" => steps = <<"resolve">>
            /\ container.state = "exited" => steps = <<"resolve", "running">>
            /\ (container.state = "running" /\ ~container.path_exists) =>
                  steps = <<"resolve", "running", "path">>
            /\ ~ChecksPassed => device_out[d].targets = <<>>

\* C16 witness: a running container without the configured path ended the
\* appliance after the path check, with no target and no extraction.
C16_Witness ==
    \E d \in DockerDone :
        /\ container.state = "running" /\ ~container.path_exists
        /\ device_out[d].steps = <<"resolve", "running", "path">>
        /\ device_out[d].targets = <<>>

\* C17: the direct copy is the first method; the tar stream is attempted exactly
\* when the direct copy reported failure; nothing follows a method that
\* reported success.
C17_OrderedFallback ==
    \A d \in DockerDone :
        LET steps == device_out[d].steps
        IN  /\ InSeq("tar", steps) => InSeq("cp", steps)
            /\ InSeq("cp", steps) =>
                  /\ InSeq("tar", steps) <=> container.cp # "ok"
                  /\ steps[Len(steps)] = (IF container.cp = "ok" THEN "cp" ELSE "tar")
            /\ Len(SelectSeq(steps, LAMBDA x : x = "cp")) <= 1
            /\ Len(SelectSeq(steps, LAMBDA x : x = "tar")) <= 1

\* C17 witness: the direct copy failed, the tar stream succeeded and the
\* appliance's files were collected.
C17_Witness ==
    \E d \in DockerDone :
        /\ container.cp # "ok" /\ container.tar = "ok"
        /\ device_out[d].steps = <<"resolve", "running", "path", "cp", "tar">>
        /\ device_out[d].targets # <<>>

\* what the appliance emits when the direct copy succeeds on a clean directory
DirectCopyTargets(d) ==
    LET device_config == get_all_devices[d]
        temp_destination ==
            TempDestination(d, resolve_container_id(device_config.container))
    IN  CollectedFiles(docker_cp(EmptyMap, temp_destination, "ok"), temp_destination,
                       device_config.path, d, device_config.file_type)

DestRels(targets) == {targets[k].dest_rel : k \in 1..Len(targets)}

\* C18: when the tar stream succeeds after a direct copy that failed and wrote
\* nothing, the emitted targets have the destination-relative paths the
\* direct copy would have given.
C18_MethodsInterchangeable ==
    \A d \in DockerDone :
        (ChecksPassed /\ container.cp = "fail" /\ container.tar = "ok") =>
            DestRels(device_out[d].targets) = DestRels(DirectCopyTargets(d))

\* the direct copy itself emits these targets
C18_DirectCopyAgrees ==
    \A d \in DockerDone :
        (ChecksPassed /\ container.cp = "ok") =>
            DestRels(device_out[d].targets) = DestRels(DirectCopyTargets(d))

\* C19: no failure of a container appliance's collection ends the run: the run
\* never aborts in the scan phase, and an appliance whose collection failed
\* has no target.
C19_ContainerFailureIsolated ==
    /\ pc = "failed" => copy_pos # NoCopy
    /\ \A d \in DockerDone :
          (~ChecksPassed \/ (container.cp # "ok" /\ container.tar # "ok")) =>
              device_out[d].targets = <<>>

\* C19 without the failure to create the temporary directory: the run goes on
\* to persist the path cache
C19_CheckFailuresIsolated ==
    (pc = "done" /\ fault # "temp") =>
        /\ DockerDone # {}
        /\ path_cache_file = StoredFile(new_path_cache)
        /\ \A d \in DockerDone :
              (~ChecksPassed \/ (container.cp # "ok" /\ container.tar # "ok")) =>
                  device_out[d].targets = <<>>

\* the run is about to process a container appliance
AtDocker ==
    /\ pc = "scan" /\ dev_idx <= Len(DeviceOrder)
    /\ get_all_devices[DeviceOrder[dev_idx]].type = "docker"

\* the call of collect_from_docker_container the run is about to make
PendingDockerCall ==
    LET device_name == DeviceOrder[dev_idx]
        device_config == get_all_devices[device_name]
    IN  collect_from_docker_container(temp_tree, device_config.container,
            device_config.path, device_name, device_config.file_type)

\* C20: the collection from a container always returns, also when the archive
\* process never closes its output nor exits, so the run can go on.
C20_BoundedWait == AtDocker => ~PendingDockerCall.blocked

\* C20 for every other outcome of the tar stream
C20_OtherwiseNotBlocked ==
    (AtDocker /\ container.tar # "hang") => ~PendingDockerCall.blocked

\* C21: every way a collection run ends goes through the removal of the
\* temporary extraction tree: once the process is over nothing is left below
\* DOCKER_TEMP_DIR, and the exit status is 0 after a normal completion and
\* non-zero after an uncaught error or an interrupt.
C21_CleanupOnEveryExit ==
    pc = "idle" =>
        /\ temp_tree = EmptyMap
        /\ prev.ended = "done" => prev.exit_code = 0
        /\ prev.ended \in {"failed", "interrupted"} => prev.exit_code # 0

\* C21 witness: a run was interrupted after the container's files had been
\* extracted; the process removed them and ended with a non-zero status.
C21_Witness ==
    /\ pc = "idle" /\ prev.ended = "interrupted"
    /\ prev.temp_tree # EmptyMap
    /\ temp_tree = EmptyMap
    /\ prev.exit_code = 1

\* C21, second case: a run that ended in an uncaught error after the extraction
C21_ErrorExit ==
    /\ pc = "idle" /\ prev.ended = "failed"
    /\ prev.temp_tree # EmptyMap /\ temp_tree = EmptyMap /\ prev.exit_code = 1

\* the file is missing or does not hold what the collector writes
Unusable(file) == ~file.present \/ file.kind # "object"

\* the run ended in the exception of the look-up in the loaded hash record
HashingFailed == pc = "failed" /\ all_targets # <<>> /\ copy_pos = NoCopy

\* what C22 promises for the path cache file as the run found it
PathCacheRecovered ==
    (pc = "scan" /\ Unusable(path_cache_file)) =>
        /\ path_cache = EmptyMap /\ ~use_cache
        /\ \A d \in LocalDone :
              /\ device_out[d].probed # <<>>
              /\ \A k \in 1..Len(device_out[d].targets) : ~device_out[d].targets[k].cached

\* what C22 promises for the hash record file as the run found it
HashRecordRecovered ==
    /\ (pc \in {"scan", "hash", "copy", "save"} /\ Unusable(hash_file)) =>
          old_hash_record = EmptyMap
    /\ (pc \in {"copy", "save"} /\ Unusable(hash_file)) =>
          /\ unchanged_count = 0
          /\ \A k \in 1..Len(all_targets) :
                calculate_file_hash(all_targets[k].src) # 0 =>
                    InSeq(all_targets[k], changed_files)

\* C22: a cache file that is missing or whose content is not what the collector
\* wrote loads as the empty map and raises nothing: the run scans without the
\* cache, or classifies every hashed target as changed.
C22_CacheFilesNeverFatal ==
    /\ PathCacheRecovered
    /\ HashRecordRecovered
    /\ ~HashingFailed

\* C22 for files that are missing or are not JSON
C22_UnparsableRecovered ==
    /\ PathCacheRecovered
    /\ (hash_file.kind # "scalar") => (HashRecordRecovered /\ ~HashingFailed)

\* a run went through with a garbled hash record written by an earlier run,
\* and copied a file whose content had not changed
C22_GarbledReached ==
    /\ pc = "save" /\ prev.completed /\ prev.hash_file.present
    /\ hash_file.kind = "garbled"
    /\ \E k \in 1..Len(changed_files) :
          /\ changed_files[k].src \in DOMAIN prev.hash_file.data
          /\ prev.hash_file.data[changed_files[k].src] = calculate_file_hash(changed_files[k].src)

\* the same for a path cache that is JSON but no object
C22_CacheScalarReached ==
    /\ pc = "scan" /\ prev.completed /\ ~force_rescan
    /\ path_cache_file.kind = "scalar" /\ path_cache = EmptyMap
    /\ \E d \in DOMAIN prev.path_cache_file.data : prev.path_cache_file.data[d] # <<>>
    /\ \E d \in LocalDone : device_out[d].targets # <<>>

\* the targets of appliance d that the exact-file branch of process_found_items made
ExactFileTargets(d) ==
    SelectSeq(device_out[d].targets,
              LAMBDA t : ~t.cached /\ InSeq(t.src, device_out[d].found_items)
                                   /\ IsHostFile(t.src))

\* the positions of p where the anchor is a whole path component
AnchorComponents(p) ==
    {k \in 2..Len(p) : /\ Lower(p[k]) = Lower(ANCHOR_PATTERN)
                        /\ p[k - 1] = "/"
                        /\ k < Len(p) /\ p[k + 1] = "/"}

\* everything that follows the anchor component at position k and its separator
AfterAnchor(p, k) == Drop(p, k + 1)

\* C23: the destination-relative path of an exact-file match whose path has the
\* anchor as a path component is what follows that component and its separator.
C23_AnchorRelativePath ==
    \A d \in LocalDone :
        \A i \in 1..Len(ExactFileTargets(d)) :
            LET t == ExactFileTargets(d)[i]
            IN  AnchorComponents(t.src) # {} =>
                    \E k \in AnchorComponents(t.src) : t.dest_rel = AfterAnchor(t.src, k)

\* C23 when the first occurrence of the anchor's characters is the anchor component
C23_FirstOccurrenceIsComponent ==
    \A d \in LocalDone :
        \A i \in 1..Len(ExactFileTargets(d)) :
            LET t == ExactFileTargets(d)[i]
            IN  Find(LowerPath(t.src), Lower(ANCHOR_PATTERN)) \in AnchorComponents(t.src) =>
                    t.dest_rel = AfterAnchor(t.src, Find(LowerPath(t.src), Lower(ANCHOR_PATTERN)))

\* the example of the specification
C23_ExampleReached ==
    \E d \in LocalDone :
        \E i \in 1..Len(ExactFileTargets(d)) :
            /\ ExactFileTargets(d)[i].src = HostFiles[ZeekFile]
            /\ ExactFileTargets(d)[i].dest_rel
                  = <<"protocols", "/", "ssh", "/", "detect-bruteforcing", ".", "zeek">>

(***************************************************************************)
(* C24: an empty file type filters nothing.                                *)
(***************************************************************************)
Sources(targets) == {targets[k].src : k \in 1..Len(targets)}

\* the host files that exist below a directory
HostFilesUnder(directory) ==
    {HostFiles[i] : i \in {j \in FileIds : fs[j] # 0 /\ IsProperDir(directory, HostFiles[j])}}

\* lines 214-240 were reached: one of the two methods delivered the directory
Extracted(device_name) ==
    /\ InSeq("cp", device_out[device_name].steps)
    /\ container.cp = "ok" \/ container.tar = "ok"

UnfilteredDirectories(device_name) ==
    LET o == device_out[device_name]
    IN  \A k \in 1..Len(o.found_items) :
            HostFilesUnder(o.found_items[k]) \subseteq Sources(o.targets)

UnfilteredExactFiles(device_name) ==
    LET o == device_out[device_name]
    IN  \A k \in 1..Len(o.found_items) :
            IsHostFile(o.found_items[k]) => o.found_items[k] \in Sources(o.targets)

UnfilteredExtraction(device_name) ==
    LET o == device_out[device_name]
    IN  Extracted(device_name) =>
            \A f \in DOMAIN temp_tree :
                IsProperDir(join(DOCKER_TEMP_DIR, <<device_name>>), f) => f \in Sources(o.targets)

\* C24: for an appliance whose file type is empty, every matched exact file,
\* every file under a matched directory, and every file under the extraction
\* directory of a container is a target
C24_EmptyExtensionNoFilter ==
    \A d \in DOMAIN device_out :
        device_out[d].file_type = "" =>
            /\ device_out[d].type = "local" =>
                   UnfilteredExactFiles(d) /\ UnfilteredDirectories(d)
            /\ device_out[d].type = "docker" => UnfilteredExtraction(d)

\* C24, the part the code keeps: nothing is dropped below a matched directory
\* or below the extraction directory
C24_DirectoriesUnfiltered ==
    \A d \in DOMAIN device_out :
        device_out[d].file_type = "" =>
            /\ device_out[d].type = "local" => UnfilteredDirectories(d)
            /\ device_out[d].type = "docker" => UnfilteredExtraction(d)

\* a matched directory with files of several extensions, converted unfiltered
C24_DirectoryReached ==
    \E d \in DOMAIN device_out :
        /\ device_out[d].file_type = "" /\ device_out[d].type = "local"
        /\ \E k \in 1..Len(device_out[d].found_items) :
               HostFilesUnder(device_out[d].found_items[k]) # {}
        /\ Len(device_out[d].targets) > 0

\* an extraction enumerated without a filter
C24_ExtractionReached ==
    \E d \in DOMAIN device_out :
        /\ device_out[d].file_type = "" /\ device_out[d].type = "docker"
        /\ Extracted(d) /\ Len(device_out[d].targets) > 0

\* a matched exact file and an empty file type
C24_ExactFileReached ==
    \E d \in DOMAIN device_out :
        /\ device_out[d].file_type = "" /\ device_out[d].type = "local"
        /\ \E k \in 1..Len(device_out[d].found_items) : IsHostFile(device_out[d].found_items[k])



(***************************************************************************)
(* C25: the conversion keeps one target per source, the first.             *)
(***************************************************************************)
\* the (source, destination_relative) pairs of all matches, in the order the
\* conversion meets them
AllEntries(found_items, file_extension) ==
    Flatten([k \in 1..Len(found_items) |-> ItemFiles(found_items[k], file_extension)])

FirstEntry(entries, source_path) ==
    entries[CHOOSE k \in 1..Len(entries) :
                /\ entries[k][1] = source_path
                /\ \A j \in 1..(k - 1) : entries[j][1] # source_path]

\* C25: the targets converted from the matches of a local appliance have
\* pairwise distinct sources, cover every source the matches yield, and carry
\* the relative destination of the first occurrence of their source
C25_LocalDedup ==
    \A d \in DOMAIN device_out :
        (device_out[d].type = "local" /\ device_out[d].searched) =>
            LET targets == device_out[d].targets
                entries == AllEntries(device_out[d].found_items, device_out[d].file_type)
            IN  /\ \A i, j \in 1..Len(targets) : i # j => targets[i].src # targets[j].src
                /\ Sources(targets) = {entries[k][1] : k \in 1..Len(entries)}
                /\ \A i \in 1..Len(targets) :
                       targets[i].dest_rel = FirstEntry(entries, targets[i].src)[2]

\* overlapping matches: one source met twice, with two relative destinations
C25_Witness ==
    \E d \in DOMAIN device_out :
        /\ device_out[d].type = "local" /\ device_out[d].searched
        /\ LET entries == AllEntries(device_out[d].found_items, device_out[d].file_type)
           IN  \E i, j \in 1..Len(entries) :
                   i < j /\ entries[i][1] = entries[j][1] /\ entries[i][2] # entries[j][2]
        /\ Len(device_out[d].targets) > 0



(***************************************************************************)
(* C26: the cache-clearing mode.                                           *)
(***************************************************************************)
\* the last invocation of main was --clear-cache
Cleared == prev.ended = "cleared"

\* the targets of the run whose digest could be computed
Digested(targets) == SelectSeq(targets, LAMBDA t : calculate_file_hash(t.src) # 0)

\* C26: after the cache-clearing mode neither cache file nor the temporary
\* extraction tree exists, and the default run that follows scans without the
\* path cache (no target is marked cached) and classifies every target whose
\* digest it computes as changed
C26_ClearCacheResets ==
    /\ (Cleared /\ pc = "idle") =>
           ~hash_file.present /\ ~path_cache_file.present /\ temp_tree = EmptyMap
    /\ (Cleared /\ pc # "idle" /\ ~force_rescan) =>
           /\ ~use_cache /\ path_cache = EmptyMap /\ old_hash_record = EmptyMap
           /\ \A k \in 1..Len(scan_targets) : ~scan_targets[k].cached
           /\ Hashed => changed_files = Digested(all_targets) /\ unchanged_count = 0

\* C26 witness: a run recorded its digests, the caches were cleared, and the
\* default run that followed classified as changed a file whose content still
\* has the digest recorded before the clearing
C26_Witness ==
    /\ Cleared /\ pc = "save" /\ ~force_rescan
    /\ prev.hash_file.present /\ prev.path_cache_file.present
    /\ \E k \in 1..Len(changed_files) :
          /\ changed_files[k].src \in DOMAIN prev.hash_file.data
          /\ prev.hash_file.data[changed_files[k].src] = calculate_file_hash(changed_files[k].src)



(***************************************************************************)
(* C27: a forced run ignores the path cache and nothing else.              *)
(***************************************************************************)
\* the target's content has the digest the loaded record holds for its source
RecordedUnchanged(t) ==
    /\ calculate_file_hash(t.src) # 0
    /\ t.src \in DOMAIN old_hash_record
    /\ old_hash_record[t.src] = calculate_file_hash(t.src)

\* C27: in a forced run the path cache is not used (no target is marked cached,
\* every local appliance is probed), while the hash record is the one stored by
\* the earlier runs: a target whose content has its recorded digest is counted
\* unchanged and is not among the files to copy
C27_ForceKeepsHashRecord ==
    (pc \notin {"idle", "interrupted"} /\ force_rescan) =>
        /\ ~use_cache
        /\ \A k \in 1..Len(scan_targets) : ~scan_targets[k].cached
        /\ \A d \in LocalDone : device_out[d].searched /\ device_out[d].probed # <<>>
        /\ (pc \in {"scan", "hash", "copy", "save"} /\ hash_file.present
              /\ hash_file.kind = "object") => old_hash_record = hash_file.data
        /\ Hashed =>
              /\ \A k \in 1..Len(all_targets) :
                    RecordedUnchanged(all_targets[k]) => ~InSeq(all_targets[k], changed_files)
              /\ unchanged_count = Len(SelectSeq(all_targets, RecordedUnchanged))
              /\ \A k \in 1..Len(copied_files) :
                    \E j \in 1..Len(changed_files) :
                        copied_files[k] = DestinationPath(changed_files[j])

\* C27 witness: a forced run after a run that stored a path cache and digests:
\* the appliances were probed again, one file was unchanged and not copied,
\* another one was copied
C27_Witness ==
    /\ pc = "save" /\ force_rescan
    /\ \E d \in DOMAIN path_cache : path_cache[d] # <<>>
    /\ \E d \in LocalDone : device_out[d].targets # <<>>
    /\ \E k \in 1..Len(all_targets) : RecordedUnchanged(all_targets[k])
    /\ copied_files # <<>>



(***************************************************************************)
(* C28: the hash record and the output tree.                               *)
(***************************************************************************)
\* the tree holds, at the destination of the target, a complete copy of the
\* content the target's source has now
OutputHolds(tree, t) ==
    /\ DestinationPath(t) \in DOMAIN tree
    /\ Md5(tree[DestinationPath(t)]) = calculate_file_hash(t.src)

\* C28: after a completed run every target whose source is in the persisted
\* hash record has, at its destination, a file with the recorded digest; and a
\* run that starts with a destination that lacks the content of its source
\* classifies the target as changed, so that its copy is attempted again
C28_RecordNeverAhead ==
    /\ (pc = "done" /\ all_targets # <<>>) =>
          \A k \in 1..Len(all_targets) :
              all_targets[k].src \in DOMAIN load_hash_record =>
                  /\ DestinationPath(all_targets[k]) \in DOMAIN out_tree
                  /\ Md5(out_tree[DestinationPath(all_targets[k])])
                        = load_hash_record[all_targets[k].src]
    /\ (Hashed /\ prev.completed) =>
          \A k \in 1..Len(all_targets) :
              (calculate_file_hash(all_targets[k].src) # 0
                  /\ ~OutputHolds(prev.out_tree, all_targets[k])) =>
                      InSeq(all_targets[k], changed_files)

\* C28, the part the code keeps: a destination the run reports as copied holds
\* content with the digest recorded for a changed source that maps to it
C28_CopiedMatchesRecord ==
    pc = "done" =>
        \A k \in 1..Len(copied_files) :
            \E j \in 1..Len(changed_files) :
                /\ copied_files[k] = DestinationPath(changed_files[j])
                /\ changed_files[j].src \in DOMAIN load_hash_record
                /\ Md5(out_tree[copied_files[k]]) = load_hash_record[changed_files[j].src]

\* a run recorded the digest of a target whose copy failed
C28_FailedCopyRecorded ==
    /\ pc = "done"
    /\ \E k \in 1..Len(changed_files) :
          /\ CopyFails(changed_files[k])
          /\ changed_files[k].src \in DOMAIN load_hash_record
          /\ ~OutputHolds(out_tree, changed_files[k])

\* the run after a failed copy counts the target as unchanged
C28_NeverRetried ==
    /\ pc = "done" /\ prev.completed /\ ~dirty
    /\ \E k \in 1..Len(all_targets) :
          /\ RecordedUnchanged(all_targets[k])
          /\ ~InSeq(all_targets[k], changed_files)
          /\ ~OutputHolds(out_tree, all_targets[k])
          /\ CopyFails(all_targets[k])

\* without any failure: a source recorded under one appliance is attributed to
\* another appliance by a later run, counted unchanged, and never copied to its
\* destination
C28_Reattributed ==
    /\ pc = "done" /\ fault = "none"
    /\ \E k \in 1..Len(all_targets) :
          /\ RecordedUnchanged(all_targets[k])
          /\ DestinationPath(all_targets[k]) \notin DOMAIN out_tree



(***************************************************************************)
(* C29: destinations within one run.                                       *)
(***************************************************************************)
\* two targets of the list that differ in their source and share a destination
Clash(targets, i, j) ==
    /\ i < j
    /\ targets[i].src # targets[j].src
    /\ targets[i].device = targets[j].device
    /\ targets[i].dest_rel = targets[j].dest_rel

\* C29: no two targets of the de-duplicated list have distinct sources, the same
\* appliance and the same relative destination, and no destination is copied
\* twice in a run
C29_DestinationUnique ==
    /\ Scanned => \A i, j \in 1..Len(all_targets) : ~Clash(all_targets, i, j)
    /\ \A i, j \in 1..Len(copied_files) : i # j => copied_files[i] # copied_files[j]

\* a run copied two sources with different contents to one destination: the
\* second copy replaced the first one
C29_Overwritten ==
    /\ pc = "done"
    /\ \E i, j \in 1..Len(changed_files) :
          /\ Clash(changed_files, i, j)
          /\ ReadContent(changed_files[i].src) # ReadContent(changed_files[j].src)
          /\ InSeq(DestinationPath(changed_files[i]), copied_files)
          /\ out_tree[DestinationPath(changed_files[i])] = ReadContent(changed_files[j].src)



(***************************************************************************)
(* C30: the numbers of the run summary.                                    *)
(***************************************************************************)
\* the run produced a summary from its targets
Reported == pc = "done" /\ result # EmptyResult

DigestFailed == \E k \in 1..Len(all_targets) : calculate_file_hash(all_targets[k].src) = 0

CopyFailed == \E k \in 1..Len(changed_files) : CopyFails(changed_files[k])

\* C30: in the summary of a run with targets, total is the sum of the local and
\* the container files and the sum of the cached and the new paths; changed
\* plus unchanged is at most total, and equal to it exactly when every digest
\* was computed; the copied paths are at most changed many, and exactly that
\* many when no copy failed
C30_SummaryConsistent ==
    Reported =>
        /\ result.total = result.local_files + result.docker_files
        /\ result.total = result.cached_paths_used + result.new_paths_found
        /\ result.changed + result.unchanged <= result.total
        /\ result.changed + result.unchanged = result.total <=> ~DigestFailed
        /\ Len(result.copied) <= result.changed
        /\ Len(result.copied) = result.changed <=> ~CopyFailed

\* C30 witness: a summary with local and container files, cached and new paths,
\* and a target whose digest could not be computed
C30_Witness ==
    /\ Reported
    /\ result.local_files > 0 /\ result.docker_files > 0
    /\ result.cached_paths_used > 0 /\ result.new_paths_found > 0
    /\ DigestFailed
    /\ result.changed + result.unchanged < result.total

\* C30, second case: a summary of a run in which a copy failed
C30_CopyFailedReached ==
    /\ Reported
    /\ CopyFailed
    /\ 0 < Len(result.copied) /\ Len(result.copied) < result.changed



(***************************************************************************)
(* C31: the path cache of unchanged default runs.                          *)
(***************************************************************************)
\* a default run after a completed run, with nothing changed in between, has
\* saved its path cache
UnchangedRerun == Scanned /\ prev.completed /\ ~dirty /\ ~force_rescan

TreeAtStart(d, method) ==
    LET device_config == get_all_devices[d]
        temp_destination == TempDestination(d, resolve_container_id(device_config.container))
        clean == rmtree(temp_tree, temp_destination)
    IN  IF method = "cp" THEN clean
        ELSE copy_directory_from_container(clean, device_config.path, temp_destination).tree

\* the files a method writes when it succeeds, with their contents
WrittenBy(d, method) ==
    LET device_config == get_all_devices[d]
        temp_destination == TempDestination(d, resolve_container_id(device_config.container))
    IN  IF method = "cp" THEN docker_cp(EmptyMap, temp_destination, "ok")
        ELSE tar_extractall(EmptyMap, device_config.path, temp_destination)

StartsClean(d) ==
    \A method \in {"cp", "tar"} :
        InSeq(method, device_out[d].steps) =>
            ~HasEntries(TreeAtStart(d, method),
                        TempDestination(d, resolve_container_id(get_all_devices[d].container)))

\* every target is a file the last method wrote, with the content it wrote
OnlyFromLastMethod(d) ==
    LET steps == device_out[d].steps
        targets == device_out[d].targets
    IN  \A k \in 1..Len(targets) :
            /\ targets[k].src \in DOMAIN WrittenBy(d, steps[Len(steps)])
            /\ temp_tree[targets[k].src] = WrittenBy(d, steps[Len(steps)])[targets[k].src]

\* C32: the temporary destination is empty when each extraction method starts,
\* and the targets enumerated after a successful method are files that method
\* wrote: nothing an earlier failed method or an earlier run left is a target
C32_CleanDestinationPerMethod ==
    \A d \in DockerDone : StartsClean(d) /\ OnlyFromLastMethod(d)

\* C32, the part the code keeps: whatever an earlier process left is removed
\* before the first method, and a method that follows one that wrote nothing
\* starts on an empty directory
C32_CleanBeforeFirstMethod ==
    \A d \in DockerDone :
        container.cp # "partial" => StartsClean(d) /\ OnlyFromLastMethod(d)

\* leftovers of an earlier process were there and the extraction emitted targets
C32_LeftoverRemoved ==
    \E d \in DockerDone :
        /\ device_out[d].had_leftover
        /\ container.cp = "fail" /\ container.tar = "ok"
        /\ device_out[d].targets # <<>>

\* the direct copy failed half-way, the tar stream succeeded, and a file of
\* the direct copy is a target
C32_PartialCopyEmitted ==
    \E d \in DockerDone :
        /\ container.cp = "partial" /\ container.tar = "ok"
        /\ \E k \in 1..Len(device_out[d].targets) :
               device_out[d].targets[k].src \notin DOMAIN WrittenBy(d, "tar")

=============================================================================
